---- MODULE Spec2Model ----
(***************************************************************************)
(* PAFC DB TKTS pipeline: the Klarna/charges label matcher                 *)
(* (klarna_charges_value_enricher.py) and the aggregate_data.csv cascade   *)
(* (output_aggregate_builder/*.py).                                        *)
(*                                                                         *)
(* Labels are sequences of one-character strings, so that the regular      *)
(* expressions of _normalize_label and _is_coach_like are computed         *)
(* character by character.  Amounts are kept as the cell texts the code    *)
(* reads and writes.  Similarity scores are hundredths (70 = 0.70).        *)
(***************************************************************************)
EXTENDS Integers, Sequences, FiniteSets, TLC

(***************************************************************************)
(* Bounds                                                                  *)
(***************************************************************************)
MaxTotals == 2      \* rows of one charges_value_YYYYMMDD.xlsx workbook
MaxEvents == 2      \* Event rows of one Season/Event CSV
MaxWords  == 2      \* words of a label handed to _normalize_label alone
MaxRows   == 2      \* rows of one summary table
NumDates  == 2      \* distinct dates

(***************************************************************************)
(* Characters                                                              *)
(***************************************************************************)
UpperSeq ==
    <<"A", "B", "C", "D", "E", "F", "G", "H", "I", "J", "K", "L", "M", "N", "O", "P", "Q", "R", "S", "T", "U", "V", "W", "X", "Y", "Z">>
LowerSeq ==
    <<"a", "b", "c", "d", "e", "f", "g", "h", "i", "j", "k", "l", "m", "n", "o", "p", "q", "r", "s", "t", "u", "v", "w", "x", "y", "z">>
DigitSet ==
    {"0", "1", "2", "3", "4", "5", "6", "7", "8", "9"}
LowerSet == {LowerSeq[i] : i \in 1..26}
UpperSet == {UpperSeq[i] : i \in 1..26}

\* str.lower() on one character
LowerChar(c) ==
    IF c \in UpperSet THEN LowerSeq[CHOOSE i \in 1..26 : UpperSeq[i] = c] ELSE c

\* str.lower()
Lower(s) == [i \in 1..Len(s) |-> LowerChar(s[i])]

\* regex classes \w, \d, \s and [a-z0-9]
IsWordChar(c) == c \in LowerSet \cup UpperSet \cup DigitSet \cup {"_"}
IsDigit(c) == c \in DigitSet
IsSpace(c) == c = " "
IsAlnumLower(c) == c \in LowerSet \cup DigitSet

\* the character at position i, "" outside the string
At(s, i) == IF i >= 1 /\ i <= Len(s) THEN s[i] ELSE ""

\* regex \b between positions i-1 and i
WordBoundary(s, i) == IsWordChar(At(s, i - 1)) # IsWordChar(At(s, i))

\* s has the literal w at position i
HasAt(s, i, w) ==
    /\ i + Len(w) - 1 <= Len(s)
    /\ \A k \in 1..Len(w) : s[i + k - 1] = w[k]

\* substring test ("coach" in s)
Contains(s, w) == \E i \in 1..Len(s) : HasAt(s, i, w)

\* regex \s* : the first position >= i that holds no white space
RECURSIVE SkipSpaces(_, _)
SkipSpaces(s, i) ==
    IF i <= Len(s) /\ IsSpace(s[i]) THEN SkipSpaces(s, i + 1) ELSE i

\* length of the run of digits that starts at i
RECURSIVE DigitRun(_, _)
DigitRun(s, i) ==
    IF i <= Len(s) /\ IsDigit(s[i]) THEN 1 + DigitRun(s, i + 1) ELSE 0

\* regex \d{1,2}[seps] at i: the position after the separator, 0 when no match
DayPart(s, i, seps) ==
    IF IsDigit(At(s, i)) /\ IsDigit(At(s, i + 1)) /\ At(s, i + 2) \in seps
    THEN i + 3
    ELSE IF IsDigit(At(s, i)) /\ At(s, i + 1) \in seps
    THEN i + 2
    ELSE 0

\* regex \d{2,4}\b at i: the position after the digits, 0 when no match
YearPart(s, i) ==
    LET n == DigitRun(s, i)
    IN  IF n >= 2 /\ n <= 4 /\ ~IsWordChar(At(s, i + n)) THEN i + n ELSE 0

\* regex \d{1,2}[seps]\d{1,2}[seps]\d{2,4}\b at i: position after it, or 0
DateEnd(s, i, seps) ==
    LET p == DayPart(s, i, seps)
        q == IF p = 0 THEN 0 ELSE DayPart(s, p, seps)
    IN  IF q = 0 THEN 0 ELSE YearPart(s, q)

Coach == <<"c", "o", "a", "c", "h">>
Coac == <<"c", "o", "a", "c">>
Co == <<"c", "o">>
TotalWord == <<"t", "o", "t", "a", "l">>
TravelWord == <<"t", "r", "a", "v", "e", "l">>

\* the lookahead (?=\s*(?:-|\u2013)?\s*\d{1,2}/\d{1,2}/\d{2,4}\b|\s*$) at i
\* (labels here are ASCII, so the dash is "-")
CoachLookahead(s, i) ==
    LET p1 == SkipSpaces(s, i)
        p2 == IF At(s, p1) = "-" THEN p1 + 1 ELSE p1
        p3 == SkipSpaces(s, p2)
    IN  \/ DateEnd(s, p3, {"/"}) # 0
        \/ p1 = Len(s) + 1

\* CoachTokenLen with the bare "co" alternative of the pattern left out
CoachTokenLen_NoCo(s, i) ==
    LET ok(w) == /\ HasAt(s, i, w)
                 /\ WordBoundary(s, i + Len(w))
                 /\ CoachLookahead(s, i + Len(w))
    IN  IF ~WordBoundary(s, i) THEN 0
        ELSE IF ok(Coach) THEN 5
        ELSE IF ok(Coac) THEN 4
        ELSE 0

\* COACH_TOKEN_RE matched at i: the length of the token, 0 when no match
CoachTokenLen(s, i) ==
    LET ok(w) == /\ HasAt(s, i, w)
                 /\ WordBoundary(s, i + Len(w))
                 /\ CoachLookahead(s, i + Len(w))
    IN  IF ~WordBoundary(s, i) THEN 0
        ELSE IF ok(Coach) THEN 5
        ELSE IF ok(Coac) THEN 4
        ELSE IF ok(Co) THEN 2
        ELSE 0

COACH_TOKEN_RE(s) == \E i \in 1..Len(s) : CoachTokenLen(s, i) > 0

\* re.sub(COACH_TOKEN_RE, "coach", s), scanning from position i
RECURSIVE SubCoach(_, _)
SubCoach(s, i) ==
    IF i > Len(s) THEN <<>>
    ELSE LET n == CoachTokenLen(s, i)
         IN  IF n > 0 THEN Coach \o SubCoach(s, i + n)
             ELSE <<s[i]>> \o SubCoach(s, i + 1)

\* re.sub(r"\bw\b", "", s), scanning from position i
RECURSIVE SubWord(_, _, _)
SubWord(s, w, i) ==
    IF i > Len(s) THEN <<>>
    ELSE IF WordBoundary(s, i) /\ HasAt(s, i, w) /\ WordBoundary(s, i + Len(w))
    THEN SubWord(s, w, i + Len(w))
    ELSE <<s[i]>> \o SubWord(s, w, i + 1)

\* re.sub(r"\b\d{1,2}[-/.]\d{1,2}[-/.]\d{2,4}\b", "", s), scanning from i
RECURSIVE SubDate(_, _)
SubDate(s, i) ==
    LET e == IF WordBoundary(s, i) THEN DateEnd(s, i, {"-", "/", "."}) ELSE 0
    IN  IF i > Len(s) THEN <<>>
        ELSE IF e # 0 THEN SubDate(s, e)
        ELSE <<s[i]>> \o SubDate(s, i + 1)

\* re.sub(r"[^a-z0-9]+", " ", s), scanning from position i
RECURSIVE SubNonAlnum(_, _)
SubNonAlnum(s, i) ==
    IF i > Len(s) THEN <<>>
    ELSE IF IsAlnumLower(s[i]) THEN <<s[i]>> \o SubNonAlnum(s, i + 1)
    ELSE IF i > 1 /\ ~IsAlnumLower(s[i - 1]) THEN SubNonAlnum(s, i + 1)
    ELSE <<" ">> \o SubNonAlnum(s, i + 1)

\* re.sub(r"\s+", " ", s), scanning from position i
RECURSIVE CollapseSpaces(_, _)
CollapseSpaces(s, i) ==
    IF i > Len(s) THEN <<>>
    ELSE IF ~IsSpace(s[i]) THEN <<s[i]>> \o CollapseSpaces(s, i + 1)
    ELSE IF i > 1 /\ IsSpace(s[i - 1]) THEN CollapseSpaces(s, i + 1)
    ELSE <<" ">> \o CollapseSpaces(s, i + 1)

\* str.strip()
RECURSIVE Strip(_)
Strip(s) ==
    IF s = <<>> THEN s
    ELSE IF IsSpace(s[1]) THEN Strip(Tail(s))
    ELSE IF IsSpace(s[Len(s)]) THEN Strip(SubSeq(s, 1, Len(s) - 1))
    ELSE s

\* str.split(): the white-space separated tokens of s, cur is the open token
RECURSIVE SplitFrom(_, _, _)
SplitFrom(s, i, cur) ==
    IF i > Len(s) THEN (IF cur = <<>> THEN <<>> ELSE <<cur>>)
    ELSE IF IsSpace(s[i])
    THEN (IF cur = <<>> THEN <<>> ELSE <<cur>>) \o SplitFrom(s, i + 1, <<>>)
    ELSE SplitFrom(s, i + 1, Append(cur, s[i]))

Split(s) == SplitFrom(s, 1, <<>>)

\* " ".join(tokens)
RECURSIVE Join(_)
Join(tokens) ==
    IF tokens = <<>> THEN <<>>
    ELSE IF Len(tokens) = 1 THEN tokens[1]
    ELSE tokens[1] \o <<" ">> \o Join(Tail(tokens))

\* Singular without the len(t) > 4 test
Singular_AnyLength(t) ==
    IF Len(t) > 0 /\ t[Len(t)] = "s" THEN SubSeq(t, 1, Len(t) - 1) ELSE t

\* t[:-1] if t.endswith("s") and len(t) > 4 else t
Singular(t) ==
    IF Len(t) > 4 /\ t[Len(t)] = "s" THEN SubSeq(t, 1, Len(t) - 1) ELSE t

\* klarna_charges_value_enricher._is_coach_like
_is_coach_like(text) ==
    LET s == Lower(text)
    IN  \/ Contains(s, Coach)
        \/ Contains(s, TravelWord)
        \/ COACH_TOKEN_RE(s)

\* klarna_charges_value_enricher._normalize_label
_normalize_label(label) ==
    LET c0 == Lower(label)
        c1 == SubCoach(c0, 1)
        c2 == SubWord(c1, TotalWord, 1)
        c3 == SubWord(c2, TravelWord, 1)
        c4 == SubDate(c3, 1)
        c5 == SubNonAlnum(c4, 1)
        c6 == Strip(CollapseSpaces(c5, 1))
        tokens == Split(c6)
        norm_tokens == [i \in 1..Len(tokens) |-> Singular(tokens[i])]
    IN  Join(norm_tokens)

\* klarna_charges_value_enricher._common_prefix_len
RECURSIVE _common_prefix_len(_, _)
_common_prefix_len(a_tokens, b_tokens) ==
    IF a_tokens = <<>> \/ b_tokens = <<>> THEN 0
    ELSE IF a_tokens[1] = b_tokens[1]
    THEN 1 + _common_prefix_len(Tail(a_tokens), Tail(b_tokens))
    ELSE 0

(***************************************************************************)
(* Labels: total_name cells of a charges workbook and Event cells of a     *)
(* Season/Event CSV                                                        *)
(***************************************************************************)
L_PrestonCoachDate ==
    <<"P", "r", "e", "s", "t", "o", "n", " ", "N", "o", "r", "t", "h", " ", "E", "n", "d", " ", "C", "o", "a", "c", "h", " ", "-", " ", "2", "6", "/", "4", "/", "2", "5">>
L_PrestonCo ==
    <<"P", "r", "e", "s", "t", "o", "n", " ", "N", "o", "r", "t", "h", " ", "E", "n", "d", " ", "C", "o">>
L_Preston ==
    <<"P", "r", "e", "s", "t", "o", "n", " ", "N", "o", "r", "t", "h", " ", "E", "n", "d">>
L_PrestonTravel ==
    <<"P", "r", "e", "s", "t", "o", "n", " ", "N", "o", "r", "t", "h", " ", "E", "n", "d", " ", "T", "r", "a", "v", "e", "l">>
L_SausageFe ==
    <<"S", "a", "u", "s", "a", "g", "e", " ", "a", "n", "d", " ", "C", "i", "d", "e", "r", " ", "F", "e">>
L_SausageFestival ==
    <<"S", "a", "u", "s", "a", "g", "e", " ", "a", "n", "d", " ", "C", "i", "d", "e", "r", " ", "F", "e", "s", "t", "i", "v", "a", "l">>
L_SausageFeBand ==
    <<"S", "a", "u", "s", "a", "g", "e", " ", "a", "n", "d", " ", "C", "i", "d", "e", "r", " ", "F", "e", " ", "B", "a", "n", "d">>
L_ArgyleRovers ==
    <<"A", "r", "g", "y", "l", "e", " ", "R", "o", "v", "e", "r", "s">>
L_SausageMash ==
    <<"S", "a", "u", "s", "a", "g", "e", " ", "a", "n", "d", " ", "M", "a", "s", "h">>
L_TotalIncome ==
    <<"T", "o", "t", "a", "l", " ", "I", "n", "c", "o", "m", "e">>

\* words of the labels handed to _normalize_label alone
W_Totals == <<"T", "o", "t", "a", "l", "s">>
W_Princess == <<"P", "r", "i", "n", "c", "e", "s", "s">>
W_Co == <<"C", "o">>
W_Coac == <<"C", "o", "a", "c">>
W_Coach == <<"C", "o", "a", "c", "h">>
W_Total == <<"T", "o", "t", "a", "l">>
W_Travel == <<"T", "r", "a", "v", "e", "l">>
W_DateSlash == <<"2", "6", "/", "4", "/", "2", "5">>
W_DateDot == <<"2", "6", ".", "4", ".", "2", "5">>
W_Dash == <<"-">>
W_Rovers == <<"R", "o", "v", "e", "r", "s">>
W_End == <<"E", "n", "d">>
W_Boss == <<"B", "o", "s", "s">>
W_Cross == <<"C", "r", "o", "s", "s">>

Words ==
    {W_Totals, W_Princess, W_Co, W_Coac, W_Coach, W_Total, W_Travel,
     W_DateSlash, W_DateDot, W_Dash, W_Rovers, W_End, W_Boss, W_Cross}

\* the labels of 1..n words from Words, separated by one space
RECURSIVE LabelsOfWords(_)
LabelsOfWords(n) ==
    IF n = 1 THEN Words
    ELSE LET shorter == LabelsOfWords(n - 1)
         IN  shorter \cup {l \o <<" ">> \o w : l \in shorter, w \in Words}

(***************************************************************************)
(* State                                                                   *)
(***************************************************************************)
VARIABLES
    charges_df,      \* _enrich_csv: rows [total_name, value] of the workbook
    used_indices,    \* _enrich_csv: indices of charges_df already matched
    event_matches,   \* _enrich_csv: the charges_value cells built so far
    assigned,        \* the index returned for each Event row, 0 for none
    last,            \* the latest _match_event_to_total call and its result
    csv_written,     \* _enrich_csv: df["charges_value"] written back
    provider,        \* the calls of _embed_texts: "start" before the pool is
                     \* embedded, "ready" after, or the call that raised
    norm_hist,       \* a label followed by its successive normalisations
    files,           \* the source tables on disk, by config.py name
    ledger,          \* aggregate_data.csv (TICKETOFFICE_SALE_COMBINED_CSV)
    pc,              \* number of the cascade pass that ran last, 0 for none
    again,           \* the pass that ran last has been run a second time
    crashed,         \* a pass ended with an uncaught exception
    seen,            \* the source tables as the pass that ran last found them
    book,            \* aggregate_data.csv as the derived passes read and write it
    dpc,             \* number of the derived pass that ran last, 0 for none
    event_dir,       \* the Season/Event CSV of each date, as the report found it
    xero_out,        \* the rows of output_xero_tkts_<date>.csv, by date
    cell_text,       \* the text of a ledger or report cell
    by_normalise_value, \* _normalise_value(cell), once it has been called
    by_series_to_number, \* _series_to_number of the one-cell column, once called
    by_parse_amount, \* _parse_amount(cell), once it has been called
    api_key,         \* OPENAI_API_KEY is set
    se_exported,     \* the Season/Event CSV of the date as the export wrote it
    se_csv,          \* the Season/Event CSV of the date as it is on disk
    spc,             \* 0 after the export, 1 after the enrichment, 2 after the ledger pass
    applied,         \* the number of runs of add_ccdva_less_charges_column
    provider_calls,  \* the calls of the similarity provider the enrichment made
    enrich_result,   \* what enrich_klarna_tables_with_charges returned
    ccdva_cell,      \* xero_ccdva_less_charges of the date in the ledger
    rpc,             \* position of main: "start", "stages" or "exited"
    ran,             \* the stages that ran, in order, with what they returned
    exit_status,     \* the exit status of the process, -1 while it runs
    disk             \* the output files written in this run

mvars ==
    <<charges_df, used_indices, event_matches, assigned, last, csv_written,
      provider>>
nvars == <<norm_hist>>
cvars == <<files, ledger, pc, again, crashed, seen>>
dvars == <<book, dpc, event_dir, xero_out>>
kvars == <<cell_text, by_normalise_value, by_series_to_number, by_parse_amount>>
svars == <<api_key, se_exported, se_csv, spc, applied, provider_calls, enrich_result, ccdva_cell>>
rvars == <<rpc, ran, exit_status, disk>>
vars == <<mvars, nvars, cvars, dvars, kvars, svars, rvars>>

\* the aggregate cascade before any file exists
CascadeIdle ==
    /\ files = <<>>
    /\ ledger = <<>>
    /\ pc = 0
    /\ again = FALSE
    /\ crashed = FALSE
    /\ seen = <<>>

\* the derived passes and the report before any file exists
DeriveIdle ==
    /\ book = <<>>
    /\ dpc = 0
    /\ event_dir = <<>>
    /\ xero_out = <<>>

\* the three coercions before a cell is handed to them
CoerceIdle ==
    /\ cell_text = <<>>
    /\ by_normalise_value = [run |-> FALSE]
    /\ by_series_to_number = [run |-> FALSE]
    /\ by_parse_amount = [run |-> FALSE]

\* the Season/Event table of a date before it is exported
SeasonIdle ==
    /\ api_key = FALSE
    /\ se_exported = <<>>
    /\ se_csv = <<>>
    /\ spc = 0
    /\ applied = 0
    /\ provider_calls = 0
    /\ enrich_result = "not called"
    /\ ccdva_cell = <<>>

RunIdle ==
    /\ rpc = "idle"
    /\ ran = <<>>
    /\ exit_status = -1
    /\ disk = {}

(***************************************************************************)
(* Label matching: klarna_charges_value_enricher.py                        *)
(***************************************************************************)
_MIN_SIMILARITY_SCORE == 70

\* cosine similarities the provider's vectors can give, in hundredths
Scores == {55, 70, 95}

\* rows of a charges_value_YYYYMMDD.xlsx workbook
ChargeRows ==
    {[total_name |-> L_PrestonCoachDate, value |-> "120.00"],
     [total_name |-> L_Preston, value |-> "45.00"],
     [total_name |-> L_PrestonTravel, value |-> "30.00"],
     [total_name |-> L_SausageFestival, value |-> "80.00"],
     [total_name |-> L_SausageFeBand, value |-> "60.00"],
     [total_name |-> L_SausageMash, value |-> "25.00"],
     [total_name |-> L_ArgyleRovers, value |-> "10.00"]}

\* Event cells of a Season/Event CSV, after str.strip(); <<>> is a blank cell
EventLabels ==
    {L_PrestonCo, L_Preston, L_PrestonTravel, L_SausageFe, L_ArgyleRovers,
     L_TotalIncome, <<>>}

RECURSIVE SeqsUpTo(_, _)
SeqsUpTo(S, n) ==
    IF n = 0 THEN {<<>>}
    ELSE LET shorter == SeqsUpTo(S, n - 1)
         IN  shorter \cup {Append(q, x) : q \in shorter, x \in S}

TotalNames(df) == [i \in 1..Len(df) |-> df[i].total_name]

\* every label a workbook or a CSV of this model can hold; the three tables
\* below hold _normalize_label, its tokens and _is_coach_like for each of them
MatchLabels == {r.total_name : r \in ChargeRows} \cup EventLabels
NormTable == [l \in MatchLabels |-> _normalize_label(l)]
TokenTable == [l \in MatchLabels |-> Split(NormTable[l])]
CoachTable == [l \in MatchLabels |-> _is_coach_like(l)]

\* FirstIndexMap keeping the last index of each key
FirstIndexMap_Last(keys) ==
    [k \in {keys[i] : i \in 1..Len(keys)} |->
        CHOOSE i \in 1..Len(keys) :
            /\ keys[i] = k
            /\ \A j \in (i + 1)..Len(keys) : keys[j] # k]

\* lines 194-198: "if key not in normalized: normalized[key] = idx"
FirstIndexMap(keys) ==
    [k \in {keys[i] : i \in 1..Len(keys)} |->
        CHOOSE i \in 1..Len(keys) :
            /\ keys[i] = k
            /\ \A j \in 1..(i - 1) : keys[j] # k]

\* _build_normalized_total_map: normalised label -> first index producing it
_build_normalized_total_map(total_names) ==
    FirstIndexMap([i \in 1..Len(total_names) |-> NormTable[total_names[i]]])

NoMatch == [idx |-> 0, score |-> 0, via |-> "none", embedded |-> FALSE]

\* the first index of S (ascending) at which f is largest
FirstMax(S, f) ==
    CHOOSE i \in S :
        /\ \A j \in S : f[j] <= f[i]
        /\ \A j \in S : j < i => f[j] < f[i]

\* Eligible without the coach/non-coach comparison
Eligible_AnyCategory(event_is_coach, total_is_coach, used) ==
    {i \in 1..Len(total_is_coach) : i \notin used}

\* candidates of the same coach/non-coach type that are not used yet
\* (lines 247-250 and 278-283)
Eligible(event_is_coach, total_is_coach, used) ==
    {i \in 1..Len(total_is_coach) :
        /\ i \notin used
        /\ total_is_coach[i] = event_is_coach}

\* line 255: common_prefix_len of the event and every candidate
PrefixLen(tokens_event, tokens_total) ==
    [i \in 1..Len(tokens_total) |->
        _common_prefix_len(tokens_event, tokens_total[i])]

\* line 261: the candidates that pass the prefix test for the event
PrefixQualifying(tokens_event, tokens_total, eligible) ==
    {i \in eligible :
        /\ PrefixLen(tokens_event, tokens_total)[i] >= 3
        /\ PrefixLen(tokens_event, tokens_total)[i] >= Len(tokens_event) - 1}

\* ExactMatch without the "idx not in used_indices" test
ExactMatch_ReusesUsed(normalized_event, event_is_coach, normalized_totals, total_is_coach, used) ==
    IF /\ normalized_event \in DOMAIN normalized_totals
       /\ total_is_coach[normalized_totals[normalized_event]] = event_is_coach
    THEN [idx |-> normalized_totals[normalized_event], score |-> 100,
          via |-> "exact", embedded |-> FALSE]
    ELSE NoMatch

\* _match_event_to_total lines 229-237: step 1, exact normalised match
ExactMatch(normalized_event, event_is_coach, normalized_totals, total_is_coach, used) ==
    IF /\ normalized_event \in DOMAIN normalized_totals
       /\ total_is_coach[normalized_totals[normalized_event]] = event_is_coach
       /\ normalized_totals[normalized_event] \notin used
    THEN [idx |-> normalized_totals[normalized_event], score |-> 100,
          via |-> "exact", embedded |-> FALSE]
    ELSE NoMatch

\* PrefixMatch taking the first qualifying candidate, not the longest prefix
PrefixMatch_FirstQualifying(tokens_event, tokens_total, eligible) ==
    IF /\ Len(tokens_event) >= 3
       /\ PrefixQualifying(tokens_event, tokens_total, eligible) # {}
    THEN [idx |-> CHOOSE i \in PrefixQualifying(tokens_event, tokens_total,
                                                eligible) :
                      \A j \in PrefixQualifying(tokens_event, tokens_total,
                                                eligible) : i <= j,
          score |-> 95, via |-> "prefix", embedded |-> FALSE]
    ELSE NoMatch

\* _match_event_to_total lines 239-269: step 1b, prefix-lexical match
PrefixMatch(tokens_event, tokens_total, eligible) ==
    IF /\ Len(tokens_event) >= 3
       /\ PrefixQualifying(tokens_event, tokens_total, eligible) # {}
    THEN [idx |-> FirstMax(PrefixQualifying(tokens_event, tokens_total,
                                            eligible),
                           PrefixLen(tokens_event, tokens_total)),
          score |-> 95, via |-> "prefix", embedded |-> FALSE]
    ELSE NoMatch

\* EmbeddingMatch without the _MIN_SIMILARITY_SCORE test
EmbeddingMatch_NoThreshold(sims, eligible) ==
    IF eligible = {} THEN [NoMatch EXCEPT !.embedded = TRUE]
    ELSE [idx |-> FirstMax(eligible, sims),
          score |-> sims[FirstMax(eligible, sims)],
          via |-> "embedding", embedded |-> TRUE]

\* _match_event_to_total lines 271-295: step 2, embedding similarity;
\* sims[i] is the cosine of the event's embedding and total_embeddings[i]
EmbeddingMatch(sims, eligible) ==
    IF eligible = {} THEN [NoMatch EXCEPT !.embedded = TRUE]
    ELSE IF sims[FirstMax(eligible, sims)] < _MIN_SIMILARITY_SCORE
    THEN [NoMatch EXCEPT !.embedded = TRUE]
    ELSE [idx |-> FirstMax(eligible, sims),
          score |-> sims[FirstMax(eligible, sims)],
          via |-> "embedding", embedded |-> TRUE]

\* the steps that come before the provider call of line 272
LexicalMatch(normalized_event, event_is_coach, tokens_total, normalized_totals, total_is_coach, used) ==
    IF ExactMatch(normalized_event, event_is_coach, normalized_totals,
                  total_is_coach, used) # NoMatch
    THEN ExactMatch(normalized_event, event_is_coach, normalized_totals,
                    total_is_coach, used)
    ELSE PrefixMatch(Split(normalized_event), tokens_total,
                     Eligible(event_is_coach, total_is_coach, used))

\* the three steps in order, on the normalised event and candidates
MatchSteps(normalized_event, event_is_coach, tokens_total, sims, normalized_totals, total_is_coach, used) ==
    IF LexicalMatch(normalized_event, event_is_coach, tokens_total,
                    normalized_totals, total_is_coach, used) # NoMatch
    THEN LexicalMatch(normalized_event, event_is_coach, tokens_total,
                      normalized_totals, total_is_coach, used)
    ELSE EmbeddingMatch(sims, Eligible(event_is_coach, total_is_coach, used))

\* _match_event_to_total; lines 226-227 and 252-253 normalise the labels
_match_event_to_total(event, total_names, sims, normalized_totals, total_is_coach, used) ==
    MatchSteps(NormTable[event], CoachTable[event],
               [i \in 1..Len(total_names) |-> TokenTable[total_names[i]]],
               sims, normalized_totals, total_is_coach, used)

\* the similarity vectors one call can read: none before line 272
SimsFor(match, n) ==
    IF match.embedded THEN [1..n -> Scores] ELSE {[i \in 1..n |-> 0]}

\* event_clean.casefold() == "total income"
IsTotalIncome(event) == Lower(event) = Lower(L_TotalIncome)

NoCall ==
    [event |-> <<>>, match |-> NoMatch, used_before |-> {}, sims |-> <<>>,
     called |-> FALSE]

\* enrich_klarna_tables_with_charges up to line 433, for one usable workbook
MatchInit ==
    /\ RunIdle
    /\ SeasonIdle
    /\ CoerceIdle
    /\ charges_df \in SeqsUpTo(ChargeRows, MaxTotals) \ {<<>>}
    /\ used_indices = {}
    /\ event_matches = <<>>
    /\ assigned = <<>>
    /\ last = NoCall
    /\ csv_written = FALSE
    /\ provider = "start"
    /\ norm_hist = <<>>
    /\ CascadeIdle
    /\ DeriveIdle

\* enrich_klarna_tables_with_charges lines 434-436: the total names are
\* embedded
EmbedPool ==
    /\ provider = "start"
    /\ provider' = "ready"
    /\ UNCHANGED <<charges_df, used_indices, event_matches, assigned, last,
                   csv_written>>
    /\ UNCHANGED <<nvars, cvars, dvars, kvars, svars, rvars>>

\* the same call raises: _embed_texts has no handler, nor has its caller
EmbedPoolFails ==
    /\ provider = "start"
    /\ provider' = "pool raised"
    /\ UNCHANGED <<charges_df, used_indices, event_matches, assigned, last,
                   csv_written>>
    /\ UNCHANGED <<nvars, cvars, dvars, kvars, svars, rvars>>

\* _enrich_csv lines 338-344: a blank Event cell or the summary row
SkipRow(event) ==
    /\ provider = "ready"
    /\ ~csv_written
    /\ Len(event_matches) < MaxEvents
    /\ event = <<>> \/ IsTotalIncome(event)
    /\ event_matches' = Append(event_matches, "")
    /\ assigned' = Append(assigned, 0)
    /\ last' = NoCall
    /\ UNCHANGED <<charges_df, used_indices, csv_written, provider>>
    /\ UNCHANGED <<nvars, cvars, dvars, kvars, svars, rvars>>

\* _enrich_csv lines 346-364 after the match: the cell and used_indices
RecordMatch(event, sims, match) ==
    /\ sims \in SimsFor(match, Len(charges_df))
    /\ last' = [event |-> event, match |-> match,
                used_before |-> used_indices, sims |-> sims,
                called |-> TRUE]
    /\ assigned' = Append(assigned, match.idx)
    /\ IF match.idx = 0
       THEN /\ event_matches' = Append(event_matches, "0")
            /\ UNCHANGED used_indices
       ELSE /\ used_indices' = used_indices \cup {match.idx}
            /\ event_matches' =
                   Append(event_matches, charges_df[match.idx].value)

\* _enrich_csv lines 327-331 and 346-364: one Event row handed to the matcher
MatchRow(event, sims) ==
    /\ provider = "ready"
    /\ ~csv_written
    /\ Len(event_matches) < MaxEvents
    /\ ~(event = <<>> \/ IsTotalIncome(event))
    /\ RecordMatch(event, sims,
           _match_event_to_total(
               event, TotalNames(charges_df), sims,
               _build_normalized_total_map(TotalNames(charges_df)),
               [i \in 1..Len(charges_df) |->
                   CoachTable[charges_df[i].total_name]],
               used_indices))
    /\ UNCHANGED <<charges_df, csv_written, provider>>
    /\ UNCHANGED <<nvars, cvars, dvars, kvars, svars, rvars>>

\* an Event row whose match reaches line 271, where the call that embeds
\* the label raises: the exception leaves _match_event_to_total, the loop
\* of _enrich_csv and enrich_klarna_tables_with_charges
EmbedLabelFails(event) ==
    /\ provider = "ready"
    /\ ~csv_written
    /\ Len(event_matches) < MaxEvents
    /\ ~(event = <<>> \/ IsTotalIncome(event))
    /\ _match_event_to_total(
           event, TotalNames(charges_df), [i \in 1..Len(charges_df) |-> 0],
           _build_normalized_total_map(TotalNames(charges_df)),
           [i \in 1..Len(charges_df) |->
               CoachTable[charges_df[i].total_name]],
           used_indices).embedded
    /\ provider' = "label raised"
    /\ UNCHANGED <<charges_df, used_indices, event_matches, assigned, last,
                   csv_written>>
    /\ UNCHANGED <<nvars, cvars, dvars, kvars, svars, rvars>>

\* _enrich_csv lines 366-378: the column is written back to the CSV
WriteCsv ==
    /\ provider = "ready"
    /\ ~csv_written
    /\ csv_written' = TRUE
    /\ UNCHANGED <<charges_df, used_indices, event_matches, assigned, last,
                   provider>>
    /\ UNCHANGED <<nvars, cvars, dvars, kvars, svars, rvars>>

MatchNext ==
    \/ EmbedPool
    \/ EmbedPoolFails
    \/ \E event \in EventLabels : SkipRow(event)
    \/ \E event \in EventLabels : EmbedLabelFails(event)
    \/ \E event \in EventLabels :
           \E sims \in [1..Len(charges_df) -> Scores \cup {0}] :
               MatchRow(event, sims)
    \/ WriteCsv

SpecMatch == MatchInit /\ [][MatchNext]_vars

(***************************************************************************)
(* _normalize_label applied repeatedly to one label                        *)
(***************************************************************************)
NormApplications == 2

NormInit ==
    /\ RunIdle
    /\ SeasonIdle
    /\ CoerceIdle
    /\ norm_hist \in {<<l>> : l \in LabelsOfWords(MaxWords)}
    /\ charges_df = <<>>
    /\ used_indices = {}
    /\ event_matches = <<>>
    /\ assigned = <<>>
    /\ last = NoCall
    /\ csv_written = FALSE
    /\ provider = "start"
    /\ CascadeIdle
    /\ DeriveIdle

Normalize ==
    /\ Len(norm_hist) <= NormApplications
    /\ norm_hist' = Append(norm_hist, _normalize_label(norm_hist[Len(norm_hist)]))
    /\ UNCHANGED <<mvars, cvars, dvars, kvars, svars, rvars>>

NormNext == Normalize

SpecNorm == NormInit /\ [][NormNext]_vars

(***************************************************************************)
(* Properties of the label matcher                                         *)
(***************************************************************************)
LastNames == TotalNames(charges_df)
LastIndices == 1..Len(charges_df)

\* candidates that were unused and of the event's type when last was called
LastAvailable ==
    {i \in LastIndices :
        /\ i \notin last.used_before
        /\ CoachTable[LastNames[i]] = CoachTable[last.event]}

\* candidates whose normalised name equals the normalised event of last
LastSameKey ==
    {i \in LastIndices : NormTable[LastNames[i]] = NormTable[last.event]}

\* C1: single use - within one _enrich_csv pass the indices returned for the
\* Event rows are pairwise distinct, and the index returned by the latest call
\* was not returned for any earlier row.
C1_SingleUse ==
    /\ \A i, j \in 1..Len(assigned) :
           (i < j /\ assigned[i] # 0 /\ assigned[j] # 0)
               => assigned[i] # assigned[j]
    /\ (last.called /\ last.match.idx # 0) =>
           /\ last.match.idx \notin {assigned[k] : k \in 1..(Len(assigned) - 1)}
           /\ last.match.idx \notin last.used_before
    /\ used_indices = {assigned[k] : k \in 1..Len(assigned)} \ {0}

\* two rows matched, the second of which normalises to the name already spent
C1_Witness ==
    /\ Len(assigned) = 2 /\ assigned[1] # 0 /\ assigned[2] # 0
    /\ last.called
    /\ NormTable[last.event] = NormTable[LastNames[assigned[1]]]

\* C2: partition - whichever step returns an index, the candidate and the
\* event have the same _is_coach_like value.
C2_Partition ==
    (last.called /\ last.match.idx # 0) =>
        /\ last.match.via \in {"exact", "prefix", "embedding"}
        /\ CoachTable[LastNames[last.match.idx]] = CoachTable[last.event]

\* a match was returned although an unused candidate of the other type has
\* the very same normalised name as the event
C2_Witness ==
    /\ last.called /\ last.match.idx # 0
    /\ \E i \in LastSameKey :
           /\ i \notin last.used_before
           /\ CoachTable[LastNames[i]] # CoachTable[last.event]

\* C3 as claimed: whenever some unused candidate of the event's type has the
\* event's normalised name, the call returns such a candidate with score 1.0
\* from the exact step.
C3_ExactAlwaysWins ==
    (last.called /\ LastAvailable \cap LastSameKey # {}) =>
        /\ last.match.via = "exact"
        /\ last.match.score = 100
        /\ last.match.idx \in LastAvailable \cap LastSameKey

\* C3 as amended: the exact step looks at the first candidate with the
\* event's normalised name only; it returns that index with score 1.0 when
\* this first candidate is unused and of the event's type, and returns
\* nothing otherwise.
C3_FirstKeyWins ==
    last.called =>
        LET first == CHOOSE i \in LastSameKey : \A j \in LastSameKey : i <= j
        IN  IF LastSameKey # {} /\ first \in LastAvailable
            THEN /\ last.match.via = "exact"
                 /\ last.match.score = 100
                 /\ last.match.idx = first
            ELSE last.match.via # "exact"

\* the exact step answered with a pool that holds the key twice
C3_Witness ==
    /\ last.called /\ last.match.via = "exact"
    /\ Cardinality(LastSameKey) >= 2

\* tokens of the event of last, and its common prefix with candidate i
LastTokens == TokenTable[last.event]
LastPrefix(i) == _common_prefix_len(LastTokens, TokenTable[LastNames[i]])
LastPrefixOk(i) ==
    /\ i \in LastAvailable
    /\ LastPrefix(i) >= 3
    /\ LastPrefix(i) >= Len(LastTokens) - 1

\* C4: prefix fallback - a prefix result (score 0.95) is returned only for an
\* event of at least 3 tokens and an unused same-type candidate whose common
\* prefix is >= 3 and >= tokens - 1, it has the longest such prefix, and with
\* no qualifying candidate the call goes on to the embedding step.
C4_PrefixFallback ==
    last.called =>
        /\ last.match.via = "prefix" =>
               /\ last.match.score = 95
               /\ Len(LastTokens) >= 3
               /\ LastPrefixOk(last.match.idx)
               /\ \A j \in LastIndices :
                      LastPrefixOk(j) => LastPrefix(j) <= LastPrefix(last.match.idx)
        /\ ( /\ last.match.via # "exact"
             /\ Len(LastTokens) < 3 \/ \A j \in LastIndices : ~LastPrefixOk(j) )
               => last.match.embedded /\ last.match.via # "prefix"

\* a prefix result chosen among two qualifying candidates of unequal prefix
C4_Witness ==
    /\ last.called /\ last.match.via = "prefix"
    /\ \E j \in LastIndices :
           LastPrefixOk(j) /\ LastPrefix(j) < LastPrefix(last.match.idx)

\* C5: embedding threshold - in the embedding step the result is None when
\* no unused same-type candidate reaches 0.7, else the candidate of maximal
\* similarity; on None the caller appends 0, assigns nothing and leaves
\* used_indices as it was.
C5_Threshold ==
    (last.called /\ last.match.embedded) =>
        /\ (\A i \in LastAvailable : last.sims[i] < 70) => last.match.idx = 0
        /\ (\E i \in LastAvailable : last.sims[i] >= 70) =>
               /\ last.match.idx \in LastAvailable
               /\ last.match.score = last.sims[last.match.idx]
               /\ \A j \in LastAvailable : last.sims[j] <= last.match.score
        /\ last.match.idx = 0 =>
               /\ event_matches[Len(event_matches)] = "0"
               /\ assigned[Len(assigned)] = 0
               /\ used_indices = last.used_before

\* the best available candidate scored 0.55 and nothing was assigned
C5_Witness ==
    /\ last.called /\ last.match.embedded /\ last.match.idx = 0
    /\ \E i \in LastAvailable : last.sims[i] = 55

\* rows of the pool named 'Preston North End Coach - 26/4/25'
PrestonCoachRows == {i \in LastIndices : LastNames[i] = L_PrestonCoachDate}

\* C7: the truncated coach label - 'Preston North End Co' and 'Preston North
\* End Coach - 26/4/25' are both coach-like and normalise to the same tokens,
\* and with that total in the pool, unused, the event gets it by the exact
\* step: score 1.0, charges_value 120.00, no provider call.
C7_TruncatedCoach ==
    /\ CoachTable[L_PrestonCo] /\ CoachTable[L_PrestonCoachDate]
    /\ TokenTable[L_PrestonCo] = TokenTable[L_PrestonCoachDate]
    /\ ( /\ last.called /\ last.event = L_PrestonCo
         /\ Cardinality(PrestonCoachRows) = 1
         /\ PrestonCoachRows \cap last.used_before = {} )
           => /\ last.match.idx \in PrestonCoachRows
              /\ last.match.score = 100
              /\ ~last.match.embedded
              /\ event_matches[Len(event_matches)] = "120.00"

\* the event was matched in a pool that holds another total as well
C7_Witness ==
    /\ last.called /\ last.event = L_PrestonCo
    /\ Len(charges_df) = 2 /\ Cardinality(PrestonCoachRows) = 1
    /\ event_matches[Len(event_matches)] = "120.00"

(***************************************************************************)
(* Properties of _normalize_label                                          *)
(***************************************************************************)
\* a normalised label that a further _normalize_label leaves alone: no token
\* 'total' or 'travel', no token longer than 4 characters ending in 's', and
\* no final token 'co' or 'coac'
StableForm(n) ==
    LET t == Split(n)
    IN  /\ \A i \in 1..Len(t) :
               /\ t[i] \notin {TotalWord, TravelWord}
               /\ ~(Len(t[i]) > 4 /\ t[i][Len(t[i])] = "s")
        /\ t # <<>> => t[Len(t)] \notin {Co, Coac}

\* C6 as claimed: _normalize_label is idempotent.
C6_Idempotent ==
    Len(norm_hist) >= 3 => norm_hist[3] = norm_hist[2]

\* C6 as amended: normalising a normalised label n changes it exactly when n
\* holds a token 'total' or 'travel', a token longer than 4 characters that
\* ends in 's', or the final token 'co' or 'coac'.
C6_IdempotentIffStable ==
    Len(norm_hist) >= 3 =>
        (norm_hist[3] = norm_hist[2] <=> StableForm(norm_hist[2]))

\* a label that normalisation changed once and then left alone
C6_Witness ==
    /\ Len(norm_hist) >= 3
    /\ StableForm(norm_hist[2])
    /\ norm_hist[2] # <<>> /\ norm_hist[2] # Lower(norm_hist[1])

(***************************************************************************)
(* Aggregate cascade: output_aggregate_builder                             *)
(*                                                                         *)
(* A table is [present, cols, rows]: cols are its columns other than       *)
(* "date", a row is [date, cells] with cells a function on cols.  Dates    *)
(* are numbered 1..NumDates in calendar order.  A directory of per-date    *)
(* files is one table: the rows of date d are the rows of d's file.        *)
(***************************************************************************)
NaN == "NaN"      \* pandas' missing value: an empty CSV cell read as str
None == "None"    \* Python None: row.get() of a column that is absent
FileUnavailable == "File Unavailable"
DataUnavailable == "Data Unavailable"

Dates == 1..NumDates

\* cells a source file can hold
Cells == {NaN, "5.00", "7.00"}

\* config.py: the six summaries, the totals workbook, the two directories
Summaries ==
    {"TICKETOFFICE_CSV", "SALEITEMSMOP_EXCEL", "MEMBERSHIP_CSV",
     "CHARGES_CSV", "KLARNA_CSV", "KLARNA_SEMOP_CSV"}
Sources ==
    Summaries \cup {"CHARGES_TOTALS_OUTPUT_DIR", "CHARGES_POSTAL_OUTPUT_DIR",
                    "KLARNA_SEMOP_TABLE_OUTPUT_DIR"}

_K_COLS ==
    <<"k_dailytakings_cash", "k_dailytakings_credit", "k_dailytakings_debit",
      "k_dailytakings_voucher", "k_dailytakings_account">>
KCols == {_K_COLS[i] : i \in 1..Len(_K_COLS)}

\* the columns, other than "date", each source is produced with
SourceColumns ==
    [s \in Sources |->
        CASE s = "TICKETOFFICE_CSV" -> {"notes"}
          [] s = "SALEITEMSMOP_EXCEL" -> {"total_amount"}
          [] s = "MEMBERSHIP_CSV" ->
                 {"other", "total", "mddto_miles_gross",
                  "mddto_misc_group_gross", "mddto_waiting_list",
                  "mddto_total_all_sales"}
          [] s = "KLARNA_CSV" -> KCols
          [] s = "CHARGES_TOTALS_OUTPUT_DIR" -> {"total_name", "value"}
          [] s = "CHARGES_POSTAL_OUTPUT_DIR" -> {"Charge Type", "Value"}
          [] s = "KLARNA_SEMOP_TABLE_OUTPUT_DIR" ->
                 {"Event", "ccdva_less_charges"}
          [] OTHER -> {}]

\* the column that names the row, and the name of the row a pass looks for
LabelColumn ==
    [s \in Sources |->
        CASE s = "CHARGES_TOTALS_OUTPUT_DIR" -> "total_name"
          [] s = "CHARGES_POSTAL_OUTPUT_DIR" -> "Charge Type"
          [] s = "KLARNA_SEMOP_TABLE_OUTPUT_DIR" -> "Event"
          [] OTHER -> None]
_TARGET_TOTAL_NAME == "Total INCOME"
_TARGET_ROW_LABEL == "Total Charges Postal"
_EVENT_LABEL == "xero_ccdva_less_charges-->"
TargetLabel ==
    [s \in Sources |->
        CASE s = "CHARGES_TOTALS_OUTPUT_DIR" -> _TARGET_TOTAL_NAME
          [] s = "CHARGES_POSTAL_OUTPUT_DIR" -> _TARGET_ROW_LABEL
          [] s = "KLARNA_SEMOP_TABLE_OUTPUT_DIR" -> _EVENT_LABEL
          [] OTHER -> None]
Labels(s) == IF LabelColumn[s] = None THEN {None} ELSE {TargetLabel[s], "Other"}

\* one source row: the label in the label column, v in every other column
MkRow(s, d, label, v, cols) ==
    [date |-> d,
     cells |-> [c \in cols |-> IF c = LabelColumn[s] THEN label ELSE v]]

Absent == [present |-> FALSE, cols |-> {}, rows |-> <<>>]

\* a source with every column and one filled row for every date
DefaultTable(s) ==
    [present |-> TRUE,
     cols |-> SourceColumns[s],
     rows |-> [d \in Dates |->
                  MkRow(s, d, TargetLabel[s], "5.00", SourceColumns[s])]]
DefaultFiles == [s \in Sources |-> DefaultTable(s)]

\* a source as produced, or produced without one of its columns
ColumnSets(s) ==
    {SourceColumns[s]} \cup {SourceColumns[s] \ {c} : c \in SourceColumns[s]}

\* the contents one source can have: absent, or up to MaxRows rows
Tables(s) ==
    {Absent} \cup
    UNION {{[present |-> TRUE, cols |-> cols, rows |-> rows] :
               rows \in SeqsUpTo({MkRow(s, d, l, v, cols) :
                                     d \in Dates, l \in Labels(s), v \in Cells},
                                 MaxRows)} :
           cols \in ColumnSets(s)}

\* ---- pandas and Python helpers ----

\* row.get(col)
Get(row, col) == IF col \in DOMAIN row.cells THEN row.cells[col] ELSE None

\* _clean_value, _clean_amount, _clean_gross, _clean_ticketing_value,
\* _clean_postal_value: None for None, NaN, blank or "nan" after strip()
_clean_value(v) == IF v \in {None, NaN, "", " ", "nan"} THEN None ELSE v

\* membership_waiting_list_gross_aggregete._clean_value
_clean_waiting_value(v) ==
    IF v \in {None, NaN, "", " ", "NA", "N/A", "NULL", "na", "n/a", "null"}
    THEN None ELSE v

\* set(df["date"])
DateSet(t) == {t.rows[i].date : i \in 1..Len(t.rows)}

\* indices of the rows of date d, and of those with a usable col
RowsOn(t, d) == {i \in 1..Len(t.rows) : t.rows[i].date = d}
FilledOn(t, d, col) ==
    {i \in RowsOn(t, d) : _clean_value(Get(t.rows[i], col)) # None}

Min(S) == CHOOSE i \in S : \A j \in S : i <= j
Max(S) == CHOOSE i \in S : \A j \in S : j <= i

\* the rows of t whose index is in S, in order
RECURSIVE Pick(_, _, _)
Pick(rows, S, i) ==
    IF i > Len(rows) THEN <<>>
    ELSE (IF i \in S THEN <<rows[i]>> ELSE <<>>) \o Pick(rows, S, i + 1)

\* df.sort_values("date"): rows of equal date keep their order
RECURSIVE SortFrom(_, _)
SortFrom(rows, d) ==
    IF d > NumDates THEN <<>>
    ELSE Pick(rows, {i \in 1..Len(rows) : rows[i].date = d}, 1)
             \o SortFrom(rows, d + 1)
sort_values(df) == [df EXCEPT !.rows = SortFrom(df.rows, 1)]

\* df[col] = values that also resets the row's other cells
Put_ResetsOthers(cells, col, v) ==
    [c \in DOMAIN cells \cup {col} |-> IF c = col THEN v ELSE FileUnavailable]

\* df[col] = values, one value per row
Put(cells, col, v) ==
    [c \in DOMAIN cells \cup {col} |-> IF c = col THEN v ELSE cells[c]]
SetColumn(df, col, values) ==
    [df EXCEPT !.cols = @ \cup {col},
               !.rows = [i \in 1..Len(df.rows) |->
                            [df.rows[i] EXCEPT
                                !.cells = Put(@, col, values[i])]]]

\* df[col] = constant
SetConstant(df, col, v) ==
    SetColumn(df, col, [i \in 1..Len(df.rows) |-> v])

\* ---- concatenation of sequences of sequences ----
RECURSIVE Flatten(_)
Flatten(ss) == IF ss = <<>> THEN <<>> ELSE Head(ss) \o Flatten(Tail(ss))

\* left.merge(right, on="date", how="left") row by row: every left row is
\* paired with each right row of its date in order, or once with no row;
\* r holds the right row, or nothing
MergePairs(left, right) ==
    Flatten([i \in 1..Len(left.rows) |->
        IF RowsOn(right, left.rows[i].date) = {}
        THEN <<[l |-> left.rows[i], r |-> <<>>]>>
        ELSE Pick([j \in 1..Len(right.rows) |->
                      [l |-> left.rows[i], r |-> <<right.rows[j]>>]],
                  RowsOn(right, left.rows[i].date), 1)])

\* the right-hand cell of a merged row, NaN where no right row matched
RightCell(p, col) == IF p.r = <<>> THEN NaN ELSE p.r[1].cells[col]

\* the first usable col of date d in t
FirstFilled(t, d, col) == t.rows[Min(FilledOn(t, d, col))].cells[col]

\* ---- ticketoffice_date_notes_aggregate.py ----

\* pd.concat of the date columns in the required order
SummaryOrder ==
    <<"TICKETOFFICE_CSV", "SALEITEMSMOP_EXCEL", "MEMBERSHIP_CSV",
      "CHARGES_CSV", "KLARNA_CSV", "KLARNA_SEMOP_CSV">>

\* drop_duplicates(): the first occurrence of every date is kept
RECURSIVE DropDuplicates(_, _)
DropDuplicates(ds, kept) ==
    IF ds = <<>> THEN <<>>
    ELSE IF Head(ds) \in kept THEN DropDuplicates(Tail(ds), kept)
    ELSE <<Head(ds)>> \o DropDuplicates(Tail(ds), kept \cup {Head(ds)})

AllDates(f) ==
    DropDuplicates(
        Flatten([n \in 1..Len(SummaryOrder) |->
                    [i \in 1..Len(f[SummaryOrder[n]].rows) |->
                        f[SummaryOrder[n]].rows[i].date]]), {})

\* lines 94-102 with the marker of the other columns for an empty note
NoteFor_DataUnavailable(ticket_df, d) ==
    IF FilledOn(ticket_df, d, "notes") # {}
    THEN FirstFilled(ticket_df, d, "notes")
    ELSE IF d \in DateSet(ticket_df) THEN DataUnavailable
    ELSE FileUnavailable

\* lines 94-102: the note of one date
NoteFor(ticket_df, d) ==
    IF FilledOn(ticket_df, d, "notes") # {}
    THEN FirstFilled(ticket_df, d, "notes")
    ELSE IF d \in DateSet(ticket_df) THEN "Null"
    ELSE FileUnavailable

\* build_date_notes_frame, all six summaries being present
build_date_notes_frame(f) ==
    [present |-> TRUE,
     cols |-> {"ticketoffice_notes"},
     rows |-> [i \in 1..Len(AllDates(f)) |->
                  [date |-> AllDates(f)[i],
                   cells |-> [c \in {"ticketoffice_notes"} |->
                                 NoteFor(f["TICKETOFFICE_CSV"],
                                         AllDates(f)[i])]]]]

\* ---- saleitemsmop_total_amount_aggregate.py ----

\* a value, "Data Unavailable" for a date whose rows hold none, "File
\* Unavailable" for a date without rows: the first usable value is taken
FirstValueRule(t, d, col) ==
    IF FilledOn(t, d, col) # {} THEN FirstFilled(t, d, col)
    ELSE IF d \in DateSet(t) THEN DataUnavailable
    ELSE FileUnavailable

\* build_aggregate_base_with_saleitemsmop: the ledger written, or the old
\* ledger when a summary is missing (lines 42-47)
build_aggregate_base_with_saleitemsmop(old, f) ==
    IF \E s \in Summaries : ~f[s].present THEN old
    ELSE sort_values(
             SetColumn(build_date_notes_frame(f), "saleitemsmop_total",
                       [i \in 1..Len(AllDates(f)) |->
                           FirstValueRule(f["SALEITEMSMOP_EXCEL"],
                                          AllDates(f)[i], "total_amount")]))

\* ---- membership_other_total_aggregate.py ----
build_membership_other_total_columns(base_df, membership_df) ==
    IF ~base_df.present \/ ~membership_df.present THEN base_df
    ELSE sort_values(
             SetColumn(
                 SetColumn(base_df, "mddto_evergreen_other",
                           [i \in 1..Len(base_df.rows) |->
                               FirstValueRule(membership_df,
                                              base_df.rows[i].date, "other")]),
                 "mddto_evergreen_total",
                 [i \in 1..Len(base_df.rows) |->
                     FirstValueRule(membership_df,
                                    base_df.rows[i].date, "total")]))

\* ---- membership_miles_gross_aggregete.py,
\*      membership_misc_group_gross_aggregete.py ----

\* lines 80-95: setdefault() lets the first row of a date decide
FirstRowRule(t, d, col) ==
    IF RowsOn(t, d) = {} THEN FileUnavailable
    ELSE IF _clean_value(Get(t.rows[Min(RowsOn(t, d))], col)) = None
    THEN DataUnavailable
    ELSE t.rows[Min(RowsOn(t, d))].cells[col]

\* the body shared by the two functions
GrossColumn(base_df, membership_df, col) ==
    IF ~base_df.present THEN base_df
    ELSE IF ~membership_df.present
    THEN sort_values(SetConstant(base_df, col, FileUnavailable))
    ELSE IF col \notin membership_df.cols
    THEN sort_values(SetConstant(base_df, col, FileUnavailable))
    ELSE sort_values(
             SetColumn(base_df, col,
                       [i \in 1..Len(base_df.rows) |->
                           FirstRowRule(membership_df,
                                        base_df.rows[i].date, col)]))

build_membership_miles_gross_column(base_df, membership_df) ==
    GrossColumn(base_df, membership_df, "mddto_miles_gross")

build_membership_misc_group_gross_column(base_df, membership_df) ==
    GrossColumn(base_df, membership_df, "mddto_misc_group_gross")

\* ---- membership_waiting_list_gross_aggregete.py ----
_COL_NAME == "mddto_waiting_list"

WaitingFilled(t, d) ==
    {i \in RowsOn(t, d) :
        _clean_waiting_value(Get(t.rows[i], _COL_NAME)) # None}

\* lines 120-136: every non-blank row overwrites the date's value
WaitingRule(t, d) ==
    IF WaitingFilled(t, d) # {}
    THEN t.rows[Max(WaitingFilled(t, d))].cells[_COL_NAME]
    ELSE IF d \in DateSet(t) THEN DataUnavailable
    ELSE FileUnavailable

\* lines 97-118 with "File Unavailable" for every row
WaitingFallback_FileUnavailable(t, d) == FileUnavailable

\* lines 97-118: the fallback when the column is absent
WaitingFallback(t, d) ==
    IF d \in DateSet(t) THEN DataUnavailable ELSE FileUnavailable

build_membership_waiting_list_gross_column(base_df, membership_df) ==
    IF ~base_df.present THEN base_df
    ELSE IF ~membership_df.present \/ membership_df.rows = <<>>
    THEN SetConstant(base_df, _COL_NAME, FileUnavailable)
    ELSE IF _COL_NAME \notin membership_df.cols
    THEN SetColumn(base_df, _COL_NAME,
                   [i \in 1..Len(base_df.rows) |->
                       WaitingFallback(membership_df, base_df.rows[i].date)])
    ELSE SetColumn(base_df, _COL_NAME,
                   [i \in 1..Len(base_df.rows) |->
                       WaitingRule(membership_df, base_df.rows[i].date)])

\* ---- membership_total_all_sales_gross_aggregete.py ----

\* line 42 raises KeyError: the merge has renamed the column on both sides
TotalAllSalesRaises(agg_df, mdf) ==
    /\ agg_df.present
    /\ mdf.present
    /\ "mddto_total_all_sales" \in mdf.cols
    /\ "mddto_total_all_sales" \in agg_df.cols

\* lines 38-44: the left merge and fillna("Data Unavailable")
TotalAllSalesMerge(agg_df, mdf) ==
    [present |-> TRUE,
     cols |-> agg_df.cols \cup {"mddto_total_all_sales"},
     rows |-> [n \in 1..Len(MergePairs(agg_df, mdf)) |->
                  [date |-> MergePairs(agg_df, mdf)[n].l.date,
                   cells |->
                       Put(MergePairs(agg_df, mdf)[n].l.cells,
                           "mddto_total_all_sales",
                           IF RightCell(MergePairs(agg_df, mdf)[n],
                                        "mddto_total_all_sales") = NaN
                           THEN DataUnavailable
                           ELSE RightCell(MergePairs(agg_df, mdf)[n],
                                          "mddto_total_all_sales"))]]]

\* the ledger written when no exception is raised
build_membership_total_all_sales_gross_column(agg_df, mdf) ==
    IF ~agg_df.present THEN agg_df
    ELSE IF ~mdf.present
    THEN SetConstant(agg_df, "mddto_total_all_sales", FileUnavailable)
    ELSE IF "mddto_total_all_sales" \notin mdf.cols
    THEN SetConstant(agg_df, "mddto_total_all_sales", FileUnavailable)
    ELSE TotalAllSalesMerge(agg_df, mdf)

\* ---- k_dailytakings_data_aggregate.py ----

\* the names merge() gives a column that both frames hold
SuffixX(c) == c \o "_x"
SuffixY(c) == c \o "_y"

\* lines 56-60: a column the ledger lacks is created as "File Unavailable",
\* a column it holds only has its empty cells filled
KlarnaMissing(base_df) ==
    [present |-> TRUE,
     cols |-> base_df.cols \cup KCols,
     rows |-> [i \in 1..Len(base_df.rows) |->
                  [date |-> base_df.rows[i].date,
                   cells |-> [c \in base_df.cols \cup KCols |->
                                 IF c \notin KCols
                                 THEN base_df.rows[i].cells[c]
                                 ELSE IF c \notin base_df.cols
                                 THEN FileUnavailable
                                 ELSE IF base_df.rows[i].cells[c] = NaN
                                 THEN FileUnavailable
                                 ELSE base_df.rows[i].cells[c]]]]]

\* line 91
ColsFromK(k_df) == KCols \cap k_df.cols

\* the columns of base_df.merge(k_sub, on="date", how="left")
MergedCols(base_df, k_df) ==
    (base_df.cols \ ColsFromK(k_df))
        \cup (ColsFromK(k_df) \ base_df.cols)
        \cup {SuffixX(c) : c \in ColsFromK(k_df) \cap base_df.cols}
        \cup {SuffixY(c) : c \in ColsFromK(k_df) \cap base_df.cols}

\* one cell of one merged row p
MergedCell(base_df, k_df, p, c) ==
    IF c \in base_df.cols \ ColsFromK(k_df) THEN p.l.cells[c]
    ELSE IF c \in ColsFromK(k_df) \ base_df.cols THEN RightCell(p, c)
    ELSE IF \E o \in ColsFromK(k_df) \cap base_df.cols : c = SuffixX(o)
    THEN p.l.cells[CHOOSE o \in ColsFromK(k_df) \cap base_df.cols :
                       c = SuffixX(o)]
    ELSE RightCell(p, CHOOSE o \in ColsFromK(k_df) \cap base_df.cols :
                          c = SuffixY(o))

\* lines 97-100 without the two masks of lines 102-117
KlarnaCell_Unmasked(base_df, k_df, p, c) ==
    IF c \notin MergedCols(base_df, k_df) THEN NaN
    ELSE MergedCell(base_df, k_df, p, c)

\* lines 97-117 for one of the five columns of one merged row
KlarnaCell(base_df, k_df, p, c) ==
    IF p.l.date \notin DateSet(k_df) THEN FileUnavailable
    ELSE IF c \notin MergedCols(base_df, k_df) THEN DataUnavailable
    ELSE IF MergedCell(base_df, k_df, p, c) = NaN THEN DataUnavailable
    ELSE MergedCell(base_df, k_df, p, c)

\* lines 84-121
KlarnaMerge(base_df, k_df) ==
    [present |-> TRUE,
     cols |-> MergedCols(base_df, k_df) \cup KCols,
     rows |-> [n \in 1..Len(MergePairs(base_df, k_df)) |->
                  [date |-> MergePairs(base_df, k_df)[n].l.date,
                   cells |->
                       [c \in MergedCols(base_df, k_df) \cup KCols |->
                           IF c \in KCols
                           THEN KlarnaCell(base_df, k_df,
                                           MergePairs(base_df, k_df)[n], c)
                           ELSE MergedCell(base_df, k_df,
                                           MergePairs(base_df, k_df)[n],
                                           c)]]]]

build_klarna_dailytakings_data_columns(base_df, k_df) ==
    IF ~base_df.present THEN base_df
    ELSE IF ~k_df.present THEN KlarnaMissing(base_df)
    ELSE KlarnaMerge(base_df, k_df)

\* ---- SeasonEvent_total_ticketing_income_data_aggregate.py ----
_COLUMN_NAME == "charges_total"

\* the rows of date d that carry the label a pass looks for
TargetRows(t, d, s) ==
    {i \in RowsOn(t, d) : Get(t.rows[i], LabelColumn[s]) = TargetLabel[s]}

\* lines 125-141: the last usable "Total INCOME" value of the date
TicketingRule(charges, totals, d) ==
    IF {i \in TargetRows(totals, d, "CHARGES_TOTALS_OUTPUT_DIR") :
           _clean_value(Get(totals.rows[i], "value")) # None} # {}
    THEN totals.rows[
             Max({i \in TargetRows(totals, d, "CHARGES_TOTALS_OUTPUT_DIR") :
                     _clean_value(Get(totals.rows[i], "value")) # None})
         ].cells["value"]
    ELSE IF TargetRows(totals, d, "CHARGES_TOTALS_OUTPUT_DIR") # {}
    THEN DataUnavailable
    ELSE IF d \in DateSet(charges) THEN DataUnavailable
    ELSE FileUnavailable

build_total_ticketing_income_column(base_df, charges, totals) ==
    IF ~base_df.present THEN base_df
    ELSE IF ~charges.present \/ ~totals.present
    THEN sort_values(SetConstant(base_df, _COLUMN_NAME, FileUnavailable))
    ELSE IF "total_name" \notin totals.cols
    THEN sort_values(SetConstant(base_df, _COLUMN_NAME, FileUnavailable))
    ELSE sort_values(
             SetColumn(base_df, _COLUMN_NAME,
                       [i \in 1..Len(base_df.rows) |->
                           TicketingRule(charges, totals,
                                         base_df.rows[i].date)]))

\* ---- SeasonEvent_total_postel_charges_data_aggregate.py ----

\* _load_postal_total and lines 131-137: the cell for the file of date d
_load_postal_total(dir, d) ==
    IF RowsOn(dir, d) = {} THEN FileUnavailable
    ELSE IF ~({"Charge Type", "Value"} \subseteq dir.cols)
    THEN DataUnavailable
    ELSE IF TargetRows(dir, d, "CHARGES_POSTAL_OUTPUT_DIR") = {}
    THEN DataUnavailable
    ELSE IF _clean_value(
                dir.rows[Min(TargetRows(dir, d, "CHARGES_POSTAL_OUTPUT_DIR"))
                        ].cells["Value"]) = None
    THEN DataUnavailable
    ELSE dir.rows[Min(TargetRows(dir, d, "CHARGES_POSTAL_OUTPUT_DIR"))
                 ].cells["Value"]

build_total_postal_charges_column(base_df, dir) ==
    IF ~base_df.present THEN base_df
    ELSE IF ~dir.present
    THEN sort_values(SetConstant(base_df, "charges_postal", FileUnavailable))
    ELSE sort_values(
             SetColumn(base_df, "charges_postal",
                       [i \in 1..Len(base_df.rows) |->
                           _load_postal_total(dir, base_df.rows[i].date)]))

\* ---- xero_ccdva_less_charges_aggregate.py ----
_VALUE_COLUMN == "ccdva_less_charges"

\* _load_totals_by_date and lines 143-149: the cell for the CSV of date d
_load_totals_by_date(dir, d) ==
    IF RowsOn(dir, d) = {} THEN FileUnavailable
    ELSE IF ~({"Event", _VALUE_COLUMN} \subseteq dir.cols)
    THEN DataUnavailable
    ELSE IF TargetRows(dir, d, "KLARNA_SEMOP_TABLE_OUTPUT_DIR") = {}
    THEN DataUnavailable
    ELSE IF _clean_value(
                dir.rows[Min(TargetRows(dir, d,
                                        "KLARNA_SEMOP_TABLE_OUTPUT_DIR"))
                        ].cells[_VALUE_COLUMN]) = None
    THEN DataUnavailable
    ELSE dir.rows[Min(TargetRows(dir, d, "KLARNA_SEMOP_TABLE_OUTPUT_DIR"))
                 ].cells[_VALUE_COLUMN]

build_xero_ccdva_less_charges_column(base_df, dir) ==
    IF ~base_df.present THEN base_df
    ELSE IF ~dir.present
    THEN sort_values(SetConstant(base_df, "xero_ccdva_less_charges",
                                 FileUnavailable))
    ELSE sort_values(
             SetColumn(base_df, "xero_ccdva_less_charges",
                       [i \in 1..Len(base_df.rows) |->
                           _load_totals_by_date(dir, base_df.rows[i].date)]))

\* ---- the passes in the order of output_aggregate_builder/__init__.py ----
NumPasses == 10

\* the sources each pass reads
Reads ==
    [k \in 1..NumPasses |->
        CASE k = 1 -> Summaries
          [] k \in 2..6 -> {"MEMBERSHIP_CSV"}
          [] k = 7 -> {"KLARNA_CSV"}
          [] k = 8 -> {"CHARGES_CSV", "CHARGES_TOTALS_OUTPUT_DIR"}
          [] k = 9 -> {"CHARGES_POSTAL_OUTPUT_DIR"}
          [] OTHER -> {"KLARNA_SEMOP_TABLE_OUTPUT_DIR"}]

\* one source differs from the default, the ledger is not built yet
CascadeInit ==
    /\ RunIdle
    /\ SeasonIdle
    /\ CoerceIdle
    /\ files \in UNION {{[DefaultFiles EXCEPT ![s] = t] : t \in Tables(s)} :
                           s \in Sources}
    /\ seen = files
    /\ ledger = Absent
    /\ pc = 0
    /\ again = FALSE
    /\ crashed = FALSE
    /\ charges_df = <<>>
    /\ used_indices = {}
    /\ event_matches = <<>>
    /\ assigned = <<>>
    /\ last = NoCall
    /\ csv_written = FALSE
    /\ provider = "start"
    /\ norm_hist = <<>>
    /\ DeriveIdle

\* pass k is next in the flow, or has just run and is run once more
CanRun(k) ==
    /\ ~crashed
    /\ pc = k - 1 \/ (pc = k /\ ~again)

\* pass k has returned
Ran(k) ==
    /\ pc' = k
    /\ again' = (pc = k)
    /\ seen' = files
    /\ UNCHANGED <<files, crashed>>
    /\ UNCHANGED <<mvars, nvars, dvars, kvars, svars, rvars>>

BuildBase ==
    /\ CanRun(1)
    /\ ledger' = build_aggregate_base_with_saleitemsmop(ledger, files)
    /\ Ran(1)

MembershipOtherTotal ==
    /\ CanRun(2)
    /\ ledger' = build_membership_other_total_columns(
                     ledger, files["MEMBERSHIP_CSV"])
    /\ Ran(2)

MembershipMiles ==
    /\ CanRun(3)
    /\ ledger' = build_membership_miles_gross_column(
                     ledger, files["MEMBERSHIP_CSV"])
    /\ Ran(3)

MembershipMisc ==
    /\ CanRun(4)
    /\ ledger' = build_membership_misc_group_gross_column(
                     ledger, files["MEMBERSHIP_CSV"])
    /\ Ran(4)

MembershipWaitingList ==
    /\ CanRun(5)
    /\ ledger' = build_membership_waiting_list_gross_column(
                     ledger, files["MEMBERSHIP_CSV"])
    /\ Ran(5)

\* the KeyError of line 42 ends the run; the ledger is not rewritten
MembershipTotalAllSales ==
    /\ CanRun(6)
    /\ IF TotalAllSalesRaises(ledger, files["MEMBERSHIP_CSV"])
       THEN /\ crashed' = TRUE
            /\ pc' = 6
            /\ again' = (pc = 6)
            /\ seen' = files
            /\ UNCHANGED <<files, ledger>>
            /\ UNCHANGED <<mvars, nvars, dvars, kvars, svars, rvars>>
       ELSE /\ ledger' = build_membership_total_all_sales_gross_column(
                             ledger, files["MEMBERSHIP_CSV"])
            /\ Ran(6)

KlarnaDailyTakings ==
    /\ CanRun(7)
    /\ ledger' = build_klarna_dailytakings_data_columns(
                     ledger, files["KLARNA_CSV"])
    /\ Ran(7)

TicketingIncome ==
    /\ CanRun(8)
    /\ ledger' = build_total_ticketing_income_column(
                     ledger, files["CHARGES_CSV"],
                     files["CHARGES_TOTALS_OUTPUT_DIR"])
    /\ Ran(8)

PostalCharges ==
    /\ CanRun(9)
    /\ ledger' = build_total_postal_charges_column(
                     ledger, files["CHARGES_POSTAL_OUTPUT_DIR"])
    /\ Ran(9)

CcdvaLessCharges ==
    /\ CanRun(10)
    /\ ledger' = build_xero_ccdva_less_charges_column(
                     ledger, files["KLARNA_SEMOP_TABLE_OUTPUT_DIR"])
    /\ Ran(10)

\* a source file disappears before the pass that reads it runs (again)
RemoveFile(s) ==
    /\ ~crashed
    /\ files = DefaultFiles
    /\ \/ pc >= 1 /\ ~again /\ s \in Reads[pc]
       \/ pc < NumPasses /\ s \in Reads[pc + 1]
    /\ files' = [files EXCEPT ![s] = Absent]
    /\ UNCHANGED <<ledger, pc, again, crashed, seen>>
    /\ UNCHANGED <<mvars, nvars, dvars, kvars, svars, rvars>>

CascadeNext ==
    \/ BuildBase
    \/ MembershipOtherTotal
    \/ MembershipMiles
    \/ MembershipMisc
    \/ MembershipWaitingList
    \/ MembershipTotalAllSales
    \/ KlarnaDailyTakings
    \/ TicketingIncome
    \/ PostalCharges
    \/ CcdvaLessCharges
    \/ \E s \in Sources : RemoveFile(s)

SpecCascade == CascadeInit /\ [][CascadeNext]_vars


(***************************************************************************)
(* Properties of the aggregate cascade                                     *)
(***************************************************************************)

\* what each pass writes: the ledger column, the source and the source
\* column it is taken from
Feeds ==
    {[pass |-> 1, source |-> "SALEITEMSMOP_EXCEL", col |-> "total_amount",
      target |-> "saleitemsmop_total"],
     [pass |-> 2, source |-> "MEMBERSHIP_CSV", col |-> "other",
      target |-> "mddto_evergreen_other"],
     [pass |-> 2, source |-> "MEMBERSHIP_CSV", col |-> "total",
      target |-> "mddto_evergreen_total"],
     [pass |-> 3, source |-> "MEMBERSHIP_CSV", col |-> "mddto_miles_gross",
      target |-> "mddto_miles_gross"],
     [pass |-> 4, source |-> "MEMBERSHIP_CSV",
      col |-> "mddto_misc_group_gross", target |-> "mddto_misc_group_gross"],
     [pass |-> 5, source |-> "MEMBERSHIP_CSV", col |-> "mddto_waiting_list",
      target |-> "mddto_waiting_list"],
     [pass |-> 6, source |-> "MEMBERSHIP_CSV",
      col |-> "mddto_total_all_sales", target |-> "mddto_total_all_sales"],
     [pass |-> 8, source |-> "CHARGES_TOTALS_OUTPUT_DIR",
      col |-> "total_name", target |-> "charges_total"],
     [pass |-> 8, source |-> "CHARGES_TOTALS_OUTPUT_DIR", col |-> "value",
      target |-> "charges_total"],
     [pass |-> 9, source |-> "CHARGES_POSTAL_OUTPUT_DIR",
      col |-> "Charge Type", target |-> "charges_postal"],
     [pass |-> 9, source |-> "CHARGES_POSTAL_OUTPUT_DIR", col |-> "Value",
      target |-> "charges_postal"],
     [pass |-> 10, source |-> "KLARNA_SEMOP_TABLE_OUTPUT_DIR",
      col |-> "Event", target |-> "xero_ccdva_less_charges"],
     [pass |-> 10, source |-> "KLARNA_SEMOP_TABLE_OUTPUT_DIR",
      col |-> "ccdva_less_charges", target |-> "xero_ccdva_less_charges"]}
        \cup {[pass |-> 7, source |-> "KLARNA_CSV", col |-> c, target |-> c] :
                 c \in KCols}

\* the source file(s) a pass takes its column(s) from
PassSources ==
    [k \in 1..NumPasses |->
        IF k = 1 THEN {"SALEITEMSMOP_EXCEL"} ELSE Reads[k]]

\* pass k was the last to run and returned, and there is a ledger
After(k) == pc = k /\ ~crashed /\ ledger.present

LedgerRows == 1..Len(ledger.rows)

\* the ledger holds column c with v in every row
ColumnIs(c, v) ==
    /\ c \in ledger.cols
    /\ \A i \in LedgerRows : ledger.rows[i].cells[c] = v

\* C8: after any pass whose source file or directory was absent when it
\* ran, every ledger row holds "File Unavailable" in each target column of
\* that pass, whether or not the column existed before.
C8_MissingFile ==
    \A f \in Feeds :
        (After(f.pass) /\ \E s \in PassSources[f.pass] : ~seen[s].present)
            => ColumnIs(f.target, FileUnavailable)

\* the Klarna summary was absent when the Klarna pass ran, and a
\* k_dailytakings column still holds the amount an earlier run wrote
C8_Witness ==
    /\ After(7)
    /\ ~seen["KLARNA_CSV"].present
    /\ \E c \in KCols : ColumnIs(c, "5.00")

\* the source of f was read by the last pass and lacks f's column
ColumnMissing(f) ==
    /\ After(f.pass)
    /\ \A s \in Reads[f.pass] : seen[s].present
    /\ f.col \notin seen[f.source].cols

\* C9 as stated: when the source loads but lacks a column the pass
\* requires, every ledger row holds "File Unavailable" in the target column.
C9_MissingColumn ==
    \A f \in Feeds :
        ColumnMissing(f) => ColumnIs(f.target, FileUnavailable)

\* what the code writes for date d when f's column is absent
MissingColumnCell(f, d) ==
    IF f.pass \in {3, 4, 6} \/ f.col = "total_name" THEN FileUnavailable
    ELSE IF f.pass = 8
    THEN (IF \/ TargetRows(seen[f.source], d, f.source) # {}
             \/ d \in DateSet(seen["CHARGES_CSV"])
          THEN DataUnavailable ELSE FileUnavailable)
    ELSE IF d \in DateSet(seen[f.source]) THEN DataUnavailable
    ELSE FileUnavailable

\* C9: when the source loads but lacks the column, the miles, misc-group
\* and total-all-sales passes (and the charges-total pass for a workbook
\* without total_name) write "File Unavailable" in every row; every other
\* pass writes "Data Unavailable" for the dates that have a row or file in
\* the source and "File Unavailable" for the others.
C9_MissingColumnByPass ==
    \A f \in Feeds :
        ColumnMissing(f) =>
            /\ f.target \in ledger.cols
            /\ \A i \in LedgerRows :
                   ledger.rows[i].cells[f.target] =
                       MissingColumnCell(f, ledger.rows[i].date)

\* the waiting-list pass met a membership summary without its column and
\* wrote both markers
C9_Witness ==
    /\ After(5)
    /\ seen["MEMBERSHIP_CSV"].present
    /\ "mddto_waiting_list" \notin seen["MEMBERSHIP_CSV"].cols
    /\ \E i \in LedgerRows :
           ledger.rows[i].cells["mddto_waiting_list"] = DataUnavailable
    /\ \E i \in LedgerRows :
           ledger.rows[i].cells["mddto_waiting_list"] = FileUnavailable

\* the source of pass k loaded with every column the pass requires
Loaded(k) ==
    /\ After(k)
    /\ \A s \in Reads[k] : seen[s].present
    /\ \A f \in Feeds : f.pass = k => f.col \in seen[f.source].cols

\* C10: after a pass whose source loaded correctly, every ledger date that
\* has no row (or no per-date file) in that source holds "File Unavailable"
\* in the pass's target columns.
C10_NoSourceRow ==
    \A f \in Feeds :
        Loaded(f.pass) =>
            \A i \in LedgerRows :
                (\A s \in PassSources[f.pass] :
                     ledger.rows[i].date \notin DateSet(seen[s]))
                    => /\ f.target \in ledger.cols
                       /\ ledger.rows[i].cells[f.target] = FileUnavailable

\* the total-all-sales pass wrote "Data Unavailable" for a date that has
\* no row in the membership summary
C10_Witness ==
    /\ Loaded(6)
    /\ \E i \in LedgerRows :
           /\ ledger.rows[i].date \notin DateSet(seen["MEMBERSHIP_CSV"])
           /\ ledger.rows[i].cells["mddto_total_all_sales"] = DataUnavailable

\* ticketoffice_notes is fed by the notes column of the TicketOffice summary
NotesFeed ==
    [pass |-> 1, source |-> "TICKETOFFICE_CSV", col |-> "notes",
     target |-> "ticketoffice_notes"]

\* the feeds of a value, as opposed to the column that names the row
ValueFeeds == {f \in Feeds : f.col # LabelColumn[f.source]} \cup {NotesFeed}

\* the source of f loaded with its columns and was read by the last pass
FeedLoaded(f) == Loaded(f.pass) /\ f.col \in seen[f.source].cols

\* the source of f has rows for date d and f's field is empty in all of them
BlankOn(f, d) ==
    /\ RowsOn(seen[f.source], d) # {}
    /\ \A i \in RowsOn(seen[f.source], d) :
           seen[f.source].rows[i].cells[f.col] = NaN

\* C11 as stated: when the source has rows for a date but the field is
\* empty in all of them, the target column of that date holds "Data
\* Unavailable", ticketoffice_notes included.
C11_FieldMissing ==
    \A f \in ValueFeeds :
        FeedLoaded(f) =>
            \A i \in LedgerRows :
                BlankOn(f, ledger.rows[i].date)
                    => ledger.rows[i].cells[f.target] = DataUnavailable

\* C11: when the source has rows for a date but the field is empty in all
\* of them, the target column of that date holds "Data Unavailable", except
\* ticketoffice_notes, which holds "Null".
C11_FieldMissingOrNull ==
    \A f \in ValueFeeds :
        FeedLoaded(f) =>
            \A i \in LedgerRows :
                BlankOn(f, ledger.rows[i].date)
                    => ledger.rows[i].cells[f.target] =
                           IF f = NotesFeed THEN "Null" ELSE DataUnavailable

\* the base build met a TicketOffice row with an empty note and wrote "Null"
C11_Witness ==
    /\ FeedLoaded(NotesFeed)
    /\ \E i \in LedgerRows :
           /\ BlankOn(NotesFeed, ledger.rows[i].date)
           /\ ledger.rows[i].cells["ticketoffice_notes"] = "Null"

\* the rows of date d a feed can take its value from
FeedRows(f, d) ==
    IF LabelColumn[f.source] = None THEN RowsOn(seen[f.source], d)
    ELSE TargetRows(seen[f.source], d, f.source)

\* those of them whose field is not empty
FeedFilled(f, d) ==
    {i \in FeedRows(f, d) : seen[f.source].rows[i].cells[f.col] # NaN}

\* C12: when the source holds several rows for a date, the target column
\* of that date holds the first non-empty field value in source row order.
C12_FirstNonEmpty ==
    \A f \in ValueFeeds :
        FeedLoaded(f) =>
            \A i \in LedgerRows :
                FeedFilled(f, ledger.rows[i].date) # {}
                    => ledger.rows[i].cells[f.target] =
                           seen[f.source].rows[
                               Min(FeedFilled(f, ledger.rows[i].date))
                           ].cells[f.col]

\* the miles pass met a date whose first membership row is empty and whose
\* second row holds an amount, and wrote "Data Unavailable"
C12_Witness ==
    /\ Loaded(3)
    /\ \E i \in LedgerRows :
           /\ Cardinality(RowsOn(seen["MEMBERSHIP_CSV"],
                                 ledger.rows[i].date)) = 2
           /\ FilledOn(seen["MEMBERSHIP_CSV"], ledger.rows[i].date,
                       "mddto_miles_gross") # {}
           /\ ledger.rows[i].cells["mddto_miles_gross"] = DataUnavailable

\* the dates of the six summaries the base build read
SummaryDates == UNION {DateSet(seen[s]) : s \in Summaries}

\* C13: once the base is built, and after any later pass, the ledger has
\* exactly one row for each date of the six summaries.
C13_OneRowPerDate ==
    (ledger.present /\ ~crashed) =>
        /\ DateSet(ledger) = SummaryDates
        /\ \A i, j \in LedgerRows :
               ledger.rows[i].date = ledger.rows[j].date => i = j

\* the Klarna pass met a summary with two rows for one date and left two
\* ledger rows for that date
C13_Witness ==
    /\ Loaded(7)
    /\ \E i, j \in LedgerRows :
           /\ i # j
           /\ ledger.rows[i].date = ledger.rows[j].date
           /\ Cardinality(RowsOn(seen["KLARNA_CSV"], ledger.rows[i].date)) = 2

\* pass k was the last to run and wrote the ledger: the base build and the
\* other/total pass return without writing when a summary is missing
Wrote(k) ==
    /\ After(k)
    /\ k \in {1, 2} => \A s \in Reads[k] : seen[s].present

NA == <<"NaN">>

\* str(value), Series.astype(str)
AsStr(v) == IF v = NA THEN <<"n", "a", "n">> ELSE v

Num(c, nz) == [c |-> c, nz |-> nz /\ c = 0]
Zero == Num(0, FALSE)

\* -x, x + y and x - y on floats
FNeg(x) == IF x.c = 0 THEN Num(0, ~x.nz) ELSE Num(-x.c, FALSE)
FAdd(x, y) ==
    IF x.c = 0 /\ y.c = 0 THEN Num(0, x.nz /\ y.nz) ELSE Num(x.c + y.c, FALSE)
FSub(x, y) == FAdd(x, FNeg(y))

DigitSeq == <<"0", "1", "2", "3", "4", "5", "6", "7", "8", "9">>
DigitVal(c) == (CHOOSE i \in 1..10 : DigitSeq[i] = c) - 1

\* the number a string of digits denotes, 0 for the empty string
RECURSIVE DigitsValue(_)
DigitsValue(s) ==
    IF s = <<>> THEN 0
    ELSE 10 * DigitsValue(SubSeq(s, 1, Len(s) - 1)) + DigitVal(s[Len(s)])

\* float(s) and pd.to_numeric on one string: an optional sign, digits and at
\* most one point; ok is FALSE where float() raises ValueError, whole tells
\* a literal without point (to_numeric reads it as an integer)
ParseFloat(s) ==
    LET t == Strip(s)
        signed == t # <<>> /\ t[1] \in {"+", "-"}
        body == IF signed THEN Tail(t) ELSE t
        dots == {i \in 1..Len(body) : body[i] = "."}
        p == IF dots = {} THEN Len(body) + 1 ELSE Min(dots)
        int == SubSeq(body, 1, p - 1)
        frac == SubSeq(body, p + 1, Len(body))
        ok == /\ Cardinality(dots) <= 1
              /\ \A i \in 1..Len(body) : body[i] \in DigitSet \cup {"."}
              /\ Len(int) + Len(frac) >= 1
              /\ Len(frac) <= 2
        cents == 100 * DigitsValue(int)
                     + (IF Len(frac) = 1 THEN 10 * DigitsValue(frac)
                        ELSE DigitsValue(frac))
    IN  IF ~ok THEN [ok |-> FALSE, whole |-> FALSE, num |-> Zero]
        ELSE [ok |-> TRUE,
              whole |-> dots = {},
              num |-> IF signed /\ t[1] = "-" THEN FNeg(Num(cents, FALSE))
                      ELSE Num(cents, FALSE)]

\* str.replace(",", "")
RemoveCommas(s) == SelectSeq(s, LAMBDA c : c # ",")

\* str.strip("()")
RECURSIVE StripParens(_)
StripParens(s) ==
    IF s = <<>> THEN s
    ELSE IF s[1] \in {"(", ")"} THEN StripParens(Tail(s))
    ELSE IF s[Len(s)] \in {"(", ")"}
    THEN StripParens(SubSeq(s, 1, Len(s) - 1))
    ELSE s

\* re.sub(r"\(([^)]+)\)", r"-\1", s), scanning from position i
RECURSIVE SubParens(_, _)
SubParens(s, i) ==
    IF i > Len(s) THEN <<>>
    ELSE LET closes == {j \in (i + 1)..Len(s) : s[j] = ")"}
             j == IF closes = {} THEN 0 ELSE Min(closes)
         IN  IF s[i] = "(" /\ j > i + 1
             THEN <<"-">> \o SubSeq(s, i + 1, j - 1) \o SubParens(s, j + 1)
             ELSE <<s[i]>> \o SubParens(s, i + 1)

_normalise_value_NoNegate(value) ==
    IF value = NA THEN Zero
    ELSE LET text == Strip(value)
             f == ParseFloat(RemoveCommas(StripParens(text)))
         IN  IF text = <<>> \/ Lower(text) = <<"n", "a", "n">> THEN Zero
             ELSE IF Lower(text) \in {<<"f", "i", "l", "e", " ", "u", "n", "a", "v", "a", "i", "l", "a", "b", "l", "e">>,
                                      <<"d", "a", "t", "a", " ", "u", "n", "a", "v", "a", "i", "l", "a", "b", "l", "e">>} THEN Zero
             ELSE IF ~f.ok THEN Zero
             ELSE f.num

\* xero_booking_fee_aggregate._normalise_value, the same function in
\* xero_postage_aggregate.py
_normalise_value(value) ==
    IF value = NA THEN Zero
    ELSE LET text == Strip(value)
             negative == text[1] = "(" /\ text[Len(text)] = ")"
             f == ParseFloat(RemoveCommas(StripParens(text)))
         IN  IF text = <<>> \/ Lower(text) = <<"n", "a", "n">> THEN Zero
             ELSE IF Lower(text) \in {<<"f", "i", "l", "e", " ", "u", "n", "a", "v", "a", "i", "l", "a", "b", "l", "e">>,
                                      <<"d", "a", "t", "a", " ", "u", "n", "a", "v", "a", "i", "l", "a", "b", "l", "e">>} THEN Zero
             ELSE IF ~f.ok THEN Zero
             ELSE IF negative THEN FNeg(f.num)
             ELSE f.num

\* lines 34-44 of xero_on_account_aggregate._series_to_number for one cell
\* (the same function in the evergreen, expected-total, actual-total and
\* status modules): the text handed to pd.to_numeric
SeriesText(v) ==
    LET s == Strip(AsStr(v))
        lower == Lower(s)
    IN  SubParens(
            RemoveCommas(
                IF \/ Contains(lower, <<"u", "n", "a", "v", "a", "i", "l", "a", "b", "l", "e">>)
                   \/ Contains(lower, <<"n", "o", "t", " ", "a", "v", "a", "i", "l", "a", "b", "l", "e">>)
                   \/ lower \in {<<>>, <<"n", "a", "n">>, <<"n", "u", "l", "l">>, <<"n", "o", "n", "e">>}
                THEN <<"0">> ELSE s), 1)

\* _series_to_number: pd.to_numeric(errors="coerce").fillna(0.0) gives an
\* int64 column when every text is a whole literal, a float64 column
\* otherwise; an int64 column has no negative zero
_series_to_number(col) ==
    LET parsed == [i \in 1..Len(col) |-> ParseFloat(SeriesText(col[i]))]
        float == \E i \in 1..Len(col) : ~parsed[i].whole
    IN  [float |-> float,
         v |-> [i \in 1..Len(col) |->
                   IF ~parsed[i].ok THEN Zero
                   ELSE IF float THEN parsed[i].num
                   ELSE Num(parsed[i].num.c, FALSE)]]

\* element-wise a + b, a - b and a * -1 on two columns
SeriesAdd(a, b) ==
    [float |-> a.float \/ b.float,
     v |-> [i \in 1..Len(a.v) |-> FAdd(a.v[i], b.v[i])]]
SeriesSub(a, b) ==
    [float |-> a.float \/ b.float,
     v |-> [i \in 1..Len(a.v) |-> FSub(a.v[i], b.v[i])]]
SeriesNeg(a) ==
    [float |-> a.float,
     v |-> [i \in 1..Len(a.v) |->
               IF a.float THEN FNeg(a.v[i]) ELSE Num(-a.v[i].c, FALSE)]]

\* the decimal digits of a natural number
RECURSIVE NatStr(_)
NatStr(n) ==
    IF n < 10 THEN <<DigitSeq[n + 1]>>
    ELSE NatStr(n \div 10) \o <<DigitSeq[(n % 10) + 1]>>

Abs(n) == IF n < 0 THEN -n ELSE n

\* f"{x:.2f}"
Format2f(x) ==
    (IF x.c < 0 \/ x.nz THEN <<"-">> ELSE <<>>)
        \o NatStr(Abs(x.c) \div 100) \o <<".">>
        \o <<DigitSeq[((Abs(x.c) % 100) \div 10) + 1],
             DigitSeq[(Abs(x.c) % 10) + 1]>>

\* xero_evergreen_aggregate._format_result_series for one value:
\* str(int(fv)) for a whole number, str(fv) otherwise
_format_result_series(x) ==
    IF x.c % 100 = 0
    THEN (IF x.c < 0 THEN <<"-">> ELSE <<>>) \o NatStr(Abs(x.c) \div 100)
    ELSE (IF x.c < 0 THEN <<"-">> ELSE <<>>)
             \o NatStr(Abs(x.c) \div 100) \o <<".">>
             \o <<DigitSeq[((Abs(x.c) % 100) \div 10) + 1]>>
             \o (IF Abs(x.c) % 10 = 0 THEN <<>>
                 ELSE <<DigitSeq[(Abs(x.c) % 10) + 1]>>)

\* pandas read_csv(dtype=str): the cell texts it reads as NaN
NaTexts ==
    {<<>>, <<"n", "a", "n">>, <<"N", "a", "N">>, <<"n", "u", "l", "l">>, <<"N", "U", "L", "L">>, <<"N", "o", "n", "e">>, <<"N", "A">>, <<"N", "/", "A">>,
     <<"n", "/", "a">>}

read_cell(v) == IF v \in NaTexts THEN NA ELSE v

\* pd.read_csv(TICKETOFFICE_SALE_COMBINED_CSV, dtype=str) and
\* base_df.to_csv(...): NaN is written as an empty cell
read_csv(file) ==
    [file EXCEPT !.rows = [i \in 1..Len(file.rows) |->
        [file.rows[i] EXCEPT !.cells =
            [c \in DOMAIN @ |-> read_cell(@[c])]]]]
to_csv(df) ==
    [df EXCEPT !.rows = [i \in 1..Len(df.rows) |->
        [df.rows[i] EXCEPT !.cells =
            [c \in DOMAIN @ |-> IF @[c] = NA THEN <<>> ELSE @[c]]]]]

\* base_df[col]
Column(df, col) == [i \in 1..Len(df.rows) |-> df.rows[i].cells[col]]

\* series.map(lambda x: f"{x:.2f}")
FormatSeries(s) == [i \in 1..Len(s.v) |-> Format2f(s.v[i])]

\* sum(numeric_columns): 0 + s1 + s2 + ..., the int 0 turns -0.0 into 0.0
RECURSIVE SumSeries(_, _)
SumSeries(df, cols) ==
    IF cols = <<>>
    THEN [float |-> FALSE, v |-> [i \in 1..Len(df.rows) |-> Zero]]
    ELSE SeriesAdd(SumSeries(df, SubSeq(cols, 1, Len(cols) - 1)),
                   _series_to_number(Column(df, cols[Len(cols)])))

\* the tail of every build_*_column: set the column, sort by date, write
Store(df, col, values) == to_csv(sort_values(SetColumn(df, col, values)))

\* build_xero_booking_fee_column
build_xero_booking_fee_column(file) ==
    IF ~file.present THEN file
    ELSE IF ~({"charges_total", "charges_postal"} \subseteq file.cols)
    THEN file
    ELSE LET base_df == read_csv(file)
         IN  Store(base_df, "xero_booking_fee",
                 [i \in 1..Len(base_df.rows) |->
                     Format2f(FSub(
                         _normalise_value(base_df.rows[i].cells["charges_total"]),
                         _normalise_value(base_df.rows[i].cells["charges_postal"])))])

\* build_xero_postage_column
build_xero_postage_column(file) ==
    IF ~file.present THEN file
    ELSE IF ~({"charges_postal", "saleitemsmop_total"} \subseteq file.cols)
    THEN file
    ELSE LET base_df == read_csv(file)
         IN  Store(base_df, "xero_postage",
                 [i \in 1..Len(base_df.rows) |->
                     Format2f(FAdd(
                         _normalise_value(base_df.rows[i].cells["charges_postal"]),
                         _normalise_value(base_df.rows[i].cells["saleitemsmop_total"])))])

\* build_xero_on_account_column
build_xero_on_account_column(file) ==
    IF ~file.present THEN file
    ELSE IF ~({"k_dailytakings_voucher", "k_dailytakings_account"}
                  \subseteq file.cols)
    THEN file
    ELSE LET base_df == read_csv(file)
             voucher_num ==
                 _series_to_number(Column(base_df, "k_dailytakings_voucher"))
             account_num ==
                 _series_to_number(Column(base_df, "k_dailytakings_account"))
             on_account == SeriesNeg(SeriesAdd(voucher_num, account_num))
         IN  Store(base_df, "xero_on_account", FormatSeries(on_account))

\* build_xero_evergreen_column
build_xero_evergreen_column(file) ==
    IF ~file.present THEN file
    ELSE IF ~({"mddto_evergreen_total", "mddto_evergreen_other"}
                  \subseteq file.cols)
    THEN file
    ELSE LET base_df == read_csv(file)
             total_num ==
                 _series_to_number(Column(base_df, "mddto_evergreen_total"))
             other_num ==
                 _series_to_number(Column(base_df, "mddto_evergreen_other"))
             result == SeriesSub(total_num, other_num)
         IN  Store(base_df, "xero_evergreen",
                 [i \in 1..Len(result.v) |-> _format_result_series(result.v[i])])

\* expected_total_aggregate._DEPENDENT_COLUMNS
ExpectedColumns ==
    <<"k_dailytakings_cash", "k_dailytakings_credit", "k_dailytakings_debit">>

ActualColumns_WithMiles ==
    <<"xero_booking_fee", "xero_postage", "xero_evergreen", "xero_on_account",
      "xero_ccdva_less_charges", "mddto_miles_gross">>

ActualColumns_NoCcdva ==
    <<"xero_booking_fee", "xero_postage", "xero_evergreen", "xero_on_account">>

\* actual_total_aggregate._DEPENDENT_COLUMNS
ActualColumns ==
    <<"xero_booking_fee", "xero_postage", "xero_evergreen", "xero_on_account",
      "xero_ccdva_less_charges">>

Range(s) == {s[i] : i \in 1..Len(s)}

\* build_expected_total_column
build_expected_total_column(file) ==
    IF ~file.present THEN file
    ELSE IF ~(Range(ExpectedColumns) \subseteq file.cols) THEN file
    ELSE LET base_df == read_csv(file)
         IN  Store(base_df, "expected_total",
                 FormatSeries(SumSeries(base_df, ExpectedColumns)))

\* build_actual_total_column
build_actual_total_column(file) ==
    IF ~file.present THEN file
    ELSE IF ~(Range(ActualColumns) \subseteq file.cols) THEN file
    ELSE LET base_df == read_csv(file)
         IN  Store(base_df, "actual_total",
                 FormatSeries(SumSeries(base_df, ActualColumns)))

\* build_status_expected_and_actual_total_column: both series hold at most
\* two decimals, round(2) leaves them as they are
build_status_expected_and_actual_total_column(file) ==
    IF ~file.present THEN file
    ELSE IF ~({"actual_total", "expected_total"} \subseteq file.cols)
    THEN file
    ELSE LET base_df == read_csv(file)
             actual_numeric == _series_to_number(Column(base_df, "actual_total"))
             expected_numeric ==
                 _series_to_number(Column(base_df, "expected_total"))
         IN  Store(base_df, "Status",
                 [i \in 1..Len(base_df.rows) |->
                     IF actual_numeric.v[i].c = expected_numeric.v[i].c
                     THEN <<"M", "a", "t", "c", "h", "e", "d">> ELSE <<"N", "o", "t", " ", "M", "a", "t", "c", "h", "e", "d">>])

(***************************************************************************)
(* The reconciliation report: xero_tkts_output_builder.py                  *)
(*                                                                         *)
(* A report row is [Date, Heading, Value], each a text.  The Season/Event  *)
(* CSV of a date is a table whose rows are [Event, ccdva_less_charges].    *)
(***************************************************************************)

\* _REQUIRED_COLUMNS without "date", which every ledger has
_REQUIRED_COLUMNS ==
    {"xero_booking_fee", "xero_postage", "xero_on_account", "xero_evergreen",
     "mddto_miles_gross", "actual_total", "expected_total",
     "ticketoffice_notes"}

\* _SKIP_EVENTS without the label of the appended total row
_SKIP_EVENTS_OnlyTotalIncome == {<<"t", "o", "t", "a", "l", " ", "i", "n", "c", "o", "m", "e">>}

_SKIP_EVENTS == {<<"t", "o", "t", "a", "l", " ", "i", "n", "c", "o", "m", "e">>, <<"x", "e", "r", "o", "_", "c", "c", "d", "v", "a", "_", "l", "e", "s", "s", "_", "c", "h", "a", "r", "g", "e", "s", "-", "-", ">">>}

Banner == <<">", ">", ">", ">", ">", ">", ">", ">", ">", ">", ">", ">", ">", ">", ">", ">", "R", "e", "c", "o", "n", "c", "i", "l", "i", "a", "t", "i", "o", "n", " ", "N", "o", "t", "e", "s", ">", ">", ">", ">", ">", ">", ">", ">", ">", ">", ">", ">", ">", ">", ">", ">">>

\* _format_date of the ledger's date cell: the date as eight digits
_format_date(d) == <<"2", "0", "2", "4", "0", "1", "0">> \o <<DigitSeq[d + 1]>>

\* Python's None where a text is expected
NoText == <<"None">>

\* xero_tkts_output_builder._clean_value
report_clean_value(raw_value) ==
    LET text == Strip(AsStr(raw_value))
    IN  IF text = <<>> \/ Lower(text) \in {<<"n", "a", "n">>, <<"n", "o", "n", "e">>, <<"n", "u", "l", "l">>}
        THEN NoText ELSE text

\* _parse_amount
_parse_amount(raw_value) ==
    LET cleaned == Strip(AsStr(raw_value))
        f == ParseFloat(SubParens(RemoveCommas(cleaned), 1))
    IN  IF Lower(cleaned) \in {<<>>, <<"n", "a", "n">>, <<"n", "o", "n", "e">>, <<"n", "u", "l", "l">>} THEN Zero
        ELSE IF f.ok THEN f.num
        ELSE Zero

\* _format_amount
_format_amount(amount) == Format2f(amount)

ReportRow(date, heading, value) ==
    [Date |-> date, Heading |-> heading, Value |-> value]

\* lines 242-249 of build_xero_ticket_outputs: the values of one ledger row
RowValues(row) ==
    [col \in _REQUIRED_COLUMNS |->
        LET raw_value == Strip(AsStr(row.cells[col]))
        IN  IF Lower(raw_value) \in {<<>>, <<"n", "a", "n">>, <<"n", "o", "n", "e">>, <<"n", "u", "l", "l">>}
            THEN <<"0">> ELSE raw_value]

\* _build_core_rows
_build_core_rows(date, values) ==
    <<ReportRow(date, <<"B", "O", "O", "K", "I", "N", "G", " ", "F", "E", "E">>, values["xero_booking_fee"]),
      ReportRow(date, <<"P", "O", "S", "T", "A", "G", "E">>, values["xero_postage"]),
      ReportRow(date, <<"O", "N", " ", "A", "C", "C", "O", "U", "N", "T">>, values["xero_on_account"]),
      ReportRow(date, <<"E", "V", "E", "R", "G", "R", "E", "E", "N">>, values["xero_evergreen"]),
      ReportRow(date, <<"M", "I", "L", "E", "S", " ", "A", "W", "A", "Y", " ", "T", "R", "A", "V", "E", "L", " ", "C", "L", "U", "B">>, values["mddto_miles_gross"]),
      ReportRow(date, <<"U", "N", "A", "L", "L", "O", "C", "A", "T", "E", "D">>, <<"0">>),
      ReportRow(date, <<"R", "E", "F", "U", "N", "D">>, <<"0">>),
      ReportRow(date, <<"G", "I", "F", "T", " ", "C", "A", "R", "D">>, <<"0">>),
      ReportRow(date, <<"V", "O", "U", "C", "H", "E", "R">>, <<"0">>)>>

\* the loop of _build_event_ccdva_rows over the rows of the Season/Event
\* CSV, each cell as read_csv(dtype=str) gives it
RECURSIVE EventRows(_, _)
EventRows(date, event_rows) ==
    IF event_rows = <<>> THEN <<>>
    ELSE LET event_name == report_clean_value(read_cell(Head(event_rows).Event))
             value == report_clean_value(
                          read_cell(Head(event_rows).ccdva_less_charges))
             rest == EventRows(date, Tail(event_rows))
         IN  IF event_name = NoText THEN rest
             ELSE IF Lower(event_name) \in _SKIP_EVENTS THEN rest
             ELSE IF value = NoText THEN rest
             ELSE <<ReportRow(date, event_name, value)>> \o rest

\* _build_event_ccdva_rows
_build_event_ccdva_rows(date, csv) ==
    IF ~csv.present THEN <<>>
    ELSE IF ~({"Event", "ccdva_less_charges"} \subseteq csv.cols) THEN <<>>
    ELSE EventRows(date, csv.rows)

\* _build_reconciliation_rows
_build_reconciliation_rows(values) ==
    LET actual == _parse_amount(values["actual_total"])
        expected == _parse_amount(values["expected_total"])
        difference == FSub(expected, actual)
        status == IF difference.c = 0 THEN <<"M", "a", "t", "c", "h", "e", "d">> ELSE <<"N", "o", "t", " ", "M", "a", "t", "c", "h", "e", "d">>
        cleaned == report_clean_value(values["ticketoffice_notes"])
        notes == IF cleaned = NoText THEN <<>> ELSE cleaned
    IN  <<ReportRow(Banner, <<>>, <<>>),
          ReportRow(<<>>, <<"A", "c", "t", "u", "a", "l", " ", "T", "o", "t", "a", "l">>, _format_amount(actual)),
          ReportRow(<<>>, <<"E", "x", "p", "e", "c", "t", "e", "d", " ", "T", "o", "t", "a", "l">>, _format_amount(expected)),
          ReportRow(<<>>, <<"D", "i", "f", "f", "e", "r", "e", "n", "c", "e">>, _format_amount(difference)),
          ReportRow(<<>>, <<"R", "e", "c", "o", "n", "c", "i", "l", "i", "a", "t", "i", "o", "n", " ", "S", "t", "a", "t", "u", "s">>, status),
          ReportRow(<<>>, <<"T", "i", "c", "k", "e", "t", " ", "O", "f", "f", "i", "c", "e", " ", "N", "o", "t", "e", "s">>, notes)>>

RowReport_EventsLast(row, csv) ==
    LET date == _format_date(row.date)
        values == RowValues(row)
    IN  _build_core_rows(date, values)
            \o _build_reconciliation_rows(values)
            \o _build_event_ccdva_rows(date, csv)

\* the rows written for one ledger row
RowReport(row, csv) ==
    LET date == _format_date(row.date)
        values == RowValues(row)
    IN  _build_core_rows(date, values)
            \o _build_event_ccdva_rows(date, csv)
            \o _build_reconciliation_rows(values)

\* build_xero_ticket_outputs: nothing without the ledger or without one of
\* the required columns; otherwise one file per ledger row, in row order, a
\* later row of the same date replacing the file of an earlier one
build_xero_ticket_outputs(file, dir) ==
    IF ~file.present \/ ~(_REQUIRED_COLUMNS \subseteq file.cols)
    THEN [d \in Dates |-> <<>>]
    ELSE LET base_df == read_csv(file)
         IN  [d \in Dates |->
                 IF RowsOn(base_df, d) = {} THEN <<>>
                 ELSE RowReport(base_df.rows[Max(RowsOn(base_df, d))], dir[d])]

(***************************************************************************)
(* The derived passes and the report as a state machine.                   *)
(*                                                                         *)
(* Each pass is an entry point of its own that reads aggregate_data.csv    *)
(* from disk.  The file holds the thirteen columns below; every cell has   *)
(* its usual value except in at most MaxOdd columns of one row, where the  *)
(* cell is odd or the column is missing from the file.  The passes run in  *)
(* the order booking fee, postage, on account, evergreen, expected total,  *)
(* actual total, status: each total after the columns it adds up, the      *)
(* status after both totals.  The report is built last.                    *)
(***************************************************************************)
MaxOdd == 1

\* the ledger columns the derived passes and the report read, with the
\* value a complete day gives each
UsualCell ==
    [charges_total           |-> <<"1", "7", ".", "0", "0">>,
     charges_postal          |-> <<"1", "2", ".", "0", "0">>,
     saleitemsmop_total      |-> <<"5", ".", "0", "0">>,
     k_dailytakings_voucher  |-> <<"5", ".", "0", "0">>,
     k_dailytakings_account  |-> <<"0", ".", "0", "0">>,
     mddto_evergreen_total   |-> <<"1", "2", ".", "0", "0">>,
     mddto_evergreen_other   |-> <<"5", ".", "0", "0">>,
     k_dailytakings_cash     |-> <<"2", "0", ".", "0", "0">>,
     k_dailytakings_credit   |-> <<"5", ".", "0", "0">>,
     k_dailytakings_debit    |-> <<"4", ".", "0", "0">>,
     xero_ccdva_less_charges |-> <<"5", ".", "0", "0">>,
     mddto_miles_gross       |-> <<"5", ".", "0", "0">>,
     ticketoffice_notes      |-> <<"N", "u", "l", "l">>]
LedgerColumns == DOMAIN UsualCell

\* the columns klarna_daily_takings_aggregate merges in: the only ones in
\* which two ledger rows of one date can differ
KlarnaColumns ==
    {"k_dailytakings_voucher", "k_dailytakings_account",
     "k_dailytakings_cash", "k_dailytakings_credit", "k_dailytakings_debit"}

\* the cells a ledger column can hold besides the usual one
OddCells ==
    {<<>>, <<"F", "i", "l", "e", " ", "U", "n", "a", "v", "a", "i", "l", "a", "b", "l", "e">>, <<"D", "a", "t", "a", " ", "U", "n", "a", "v", "a", "i", "l", "a", "b", "l", "e">>, <<"N", "o", "t", " ", "A", "v", "a", "i", "l", "a", "b", "l", "e">>,
     <<"n", "o", "n", "e">>, <<"a", "b", "c">>, <<"(", "5", ".", "0", "0", ")">>, <<"1", ",", "2", "3", "4", ".", "5", "0">>, <<"7", ".", "5", "0">>, <<"1", "2">>,
     <<" ", "5", ".", "0", "0", " ">>}

\* marks a column the file does not have
Missing == <<"missing">>

\* the ways the odd row differs: an odd cell, or no column, in at most
\* MaxOdd columns
Oddities ==
    UNION {[S -> OddCells \cup {Missing}] :
              S \in {S \in SUBSET LedgerColumns : Cardinality(S) <= MaxOdd}}

\* the ledger with odd row o: alone, after a usual row of a later date, or
\* after a usual row of its own date
Layouts == {"alone", "unsorted", "twice"}
LedgerFile(o, layout) ==
    LET cols == LedgerColumns \ {c \in DOMAIN o : o[c] = Missing}
        usual(d) == [date |-> d, cells |-> [c \in cols |-> UsualCell[c]]]
        odd == [date |-> 1,
                cells |-> [c \in cols |->
                              IF c \in DOMAIN o THEN o[c] ELSE UsualCell[c]]]
    IN  [present |-> TRUE,
         cols |-> cols,
         rows |-> IF layout = "alone" THEN <<odd>>
                  ELSE IF layout = "unsorted" THEN <<usual(2), odd>>
                  ELSE <<usual(1), odd>>]

\* the source pass that fills each column the two totals are computed from
SourceOf ==
    [charges_total           |-> "charges",
     charges_postal          |-> "charges",
     saleitemsmop_total      |-> "saleitemsmop",
     k_dailytakings_voucher  |-> "klarna",
     k_dailytakings_account  |-> "klarna",
     k_dailytakings_cash     |-> "klarna",
     k_dailytakings_credit   |-> "klarna",
     k_dailytakings_debit    |-> "klarna",
     mddto_evergreen_total   |-> "membership",
     mddto_evergreen_other   |-> "membership",
     xero_ccdva_less_charges |-> "seasonevent"]

\* the placeholders a source pass writes for a date it has no figure for
Placeholders == {<<"F", "i", "l", "e", " ", "U", "n", "a", "v", "a", "i", "l", "a", "b", "l", "e">>, <<"D", "a", "t", "a", " ", "U", "n", "a", "v", "a", "i", "l", "a", "b", "l", "e">>}

\* the rows of a day without data: every source pass wrote one of its
\* placeholders into all of its columns
AbsentDays ==
    {[c \in DOMAIN SourceOf |-> p[SourceOf[c]]] :
        p \in [{SourceOf[c] : c \in DOMAIN SourceOf} -> Placeholders]}

LedgerFiles ==
    {Absent}
        \cup {LedgerFile(o, "alone") : o \in Oddities \cup AbsentDays}
        \cup {LedgerFile(o, "unsorted") : o \in AbsentDays}
        \cup {LedgerFile(o, "unsorted") : o \in Oddities}
        \cup {LedgerFile(o, "twice") :
                 o \in {o \in Oddities : DOMAIN o \subseteq KlarnaColumns}}

\* the rows a Season/Event CSV can hold: a matched event, the total row, an
\* unmatched event without a value, an unmatched event with one, and the
\* appended total row
SeasonEventRows ==
    {[Event |-> <<"A", "r", "g", "y", "l", "e", " ", "v", " ", "L", "e", "e", "d", "s">>, Total_CCDVA |-> <<"2", "5", ".", "0", "0">>, charges_value |-> <<"2", "0", ".", "0", "0">>, ccdva_less_charges |-> <<"5", ".", "0", "0">>],
     [Event |-> <<"T", "o", "t", "a", "l", " ", "I", "n", "c", "o", "m", "e">>, Total_CCDVA |-> <<"5", "0", ".", "0", "0">>, charges_value |-> <<>>, ccdva_less_charges |-> <<"2", "0", ".", "0", "0">>],
     [Event |-> <<"A", "r", "g", "y", "l", "e", " ", "v", " ", "S", "t", "o", "k", "e">>, Total_CCDVA |-> <<>>, charges_value |-> <<"0">>, ccdva_less_charges |-> <<>>],
     [Event |-> <<"A", "r", "g", "y", "l", "e", " ", "v", " ", "D", "e", "r", "b", "y">>, Total_CCDVA |-> <<"2", "5", ".", "0", "0">>, charges_value |-> <<"0">>, ccdva_less_charges |-> <<"2", "5", ".", "0", "0">>],
     [Event |-> <<"x", "e", "r", "o", "_", "c", "c", "d", "v", "a", "_", "l", "e", "s", "s", "_", "c", "h", "a", "r", "g", "e", "s", "-", "-", ">">>, Total_CCDVA |-> <<>>, charges_value |-> <<>>, ccdva_less_charges |-> <<"5", ".", "0", "0">>]}

\* the Season/Event CSV of a date: none, one without the value column, or
\* one of up to MaxEvents rows
SeasonEventFiles ==
    {Absent, [present |-> TRUE, cols |-> {"Event"}, rows |-> <<>>]}
        \cup {[present |-> TRUE,
               cols |-> {"Event", "Total_CCDVA", "charges_value", "ccdva_less_charges"},
               rows |-> rows] : rows \in SeqsUpTo(SeasonEventRows, MaxEvents)}

DeriveInit ==
    /\ RunIdle
    /\ SeasonIdle
    /\ CoerceIdle
    /\ book \in LedgerFiles
    /\ dpc = 0
    /\ event_dir = [d \in Dates |-> Absent]
    /\ xero_out = [d \in Dates |-> <<>>]
    /\ norm_hist = <<>>
    /\ charges_df = <<>>
    /\ used_indices = {}
    /\ event_matches = <<>>
    /\ assigned = <<>>
    /\ last = NoCall
    /\ csv_written = FALSE
    /\ provider = "start"
    /\ CascadeIdle

\* pass k of the derived passes runs
Derive(k, file) ==
    /\ dpc = k - 1
    /\ dpc' = k
    /\ book' = file
    /\ UNCHANGED <<event_dir, xero_out, mvars, nvars, cvars, kvars, svars, rvars>>

BookingFee == Derive(1, build_xero_booking_fee_column(book))
Postage == Derive(2, build_xero_postage_column(book))
OnAccount == Derive(3, build_xero_on_account_column(book))
Evergreen == Derive(4, build_xero_evergreen_column(book))
ExpectedTotal == Derive(5, build_expected_total_column(book))
ActualTotal == Derive(6, build_actual_total_column(book))
Status == Derive(7, build_status_expected_and_actual_total_column(book))

\* build_xero_ticket_outputs runs; the Season/Event CSV of date 1 is any of
\* SeasonEventFiles, the later dates have none
Report ==
    /\ dpc = 7
    /\ dpc' = 8
    /\ \E csv \in SeasonEventFiles :
           /\ event_dir' = [d \in Dates |-> IF d = 1 THEN csv ELSE Absent]
           /\ xero_out' = build_xero_ticket_outputs(book, event_dir')
    /\ UNCHANGED <<book, mvars, nvars, cvars, kvars, svars, rvars>>

DeriveNext ==
    \/ BookingFee
    \/ Postage
    \/ OnAccount
    \/ Evergreen
    \/ ExpectedTotal
    \/ ActualTotal
    \/ Status
    \/ Report

SpecDerive == DeriveInit /\ [][DeriveNext]_vars

(***************************************************************************)
(* Claims about the derived columns and the report                         *)
(***************************************************************************)

\* the amount, in hundredths, the specification gives a cell: 0 for a
\* blank or placeholder cell, -x for "(x)", the number for a number, 0 for
\* any other text
IsPlaceholder(t) ==
    LET s == Lower(Strip(t))
    IN  \/ s \in {<<>>, <<"n", "a", "n">>, <<"n", "u", "l", "l">>, <<"n", "o", "n", "e">>}
        \/ Contains(s, <<"u", "n", "a", "v", "a", "i", "l", "a", "b", "l", "e">>)
        \/ Contains(s, <<"n", "o", "t", " ", "a", "v", "a", "i", "l", "a", "b", "l", "e">>)
Coerced(t) ==
    LET s == RemoveCommas(Strip(t))
        inner == SubSeq(s, 2, Len(s) - 1)
    IN  IF IsPlaceholder(t) THEN 0
        ELSE IF /\ s[1] = "(" /\ s[Len(s)] = ")"
                /\ ParseFloat(inner).ok /\ inner[1] \in DigitSet
        THEN -ParseFloat(inner).num.c
        ELSE IF ParseFloat(s).ok THEN ParseFloat(s).num.c
        ELSE 0

\* the columns the two scalar passes and the three series passes read
ScalarOperands == {"charges_total", "charges_postal", "saleitemsmop_total"}
SeriesOperands ==
    {"k_dailytakings_voucher", "k_dailytakings_account",
     "mddto_evergreen_total", "mddto_evergreen_other",
     "k_dailytakings_cash", "k_dailytakings_credit", "k_dailytakings_debit"}

CentsOf(cell) == ParseFloat(cell).num.c

\* the value of expression e holds in derived column col of row i, where
\* the column exists
Holds(i, col, e) ==
    col \in book.cols => CentsOf(book.rows[i].cells[col]) = e

\* C16: after the derived passes every ledger row satisfies, to the cent
\* and over coerced values, booking_fee = charges_total - charges_postal,
\* postage = charges_postal + saleitemsmop_total, on_account = -(voucher +
\* account), evergreen = evergreen_total - evergreen_other, expected_total =
\* cash + credit + debit and actual_total = booking_fee + postage +
\* evergreen + on_account + ccdva_less_charges over the stored values
C16_DerivationChain ==
    (book.present /\ dpc >= 7) =>
        \A i \in 1..Len(book.rows) :
            LET v(c) == Coerced(book.rows[i].cells[c])
            IN  /\ Holds(i, "xero_booking_fee",
                         v("charges_total") - v("charges_postal"))
                /\ Holds(i, "xero_postage",
                         v("charges_postal") + v("saleitemsmop_total"))
                /\ Holds(i, "xero_on_account",
                         -(v("k_dailytakings_voucher")
                               + v("k_dailytakings_account")))
                /\ Holds(i, "xero_evergreen",
                         v("mddto_evergreen_total") - v("mddto_evergreen_other"))
                /\ Holds(i, "expected_total",
                         v("k_dailytakings_cash") + v("k_dailytakings_credit")
                             + v("k_dailytakings_debit"))
                /\ Holds(i, "actual_total",
                         v("xero_booking_fee") + v("xero_postage")
                             + v("xero_evergreen") + v("xero_on_account")
                             + v("xero_ccdva_less_charges"))

C16_Witness ==
    /\ dpc >= 7
    /\ book.present
    /\ {"xero_booking_fee", "xero_postage", "xero_on_account", "xero_evergreen",
        "expected_total", "actual_total"} \subseteq book.cols
    /\ \E i \in 1..Len(book.rows) :
           /\ \E c \in LedgerColumns \cap book.cols :
                  IsPlaceholder(book.rows[i].cells[c])
           /\ CentsOf(book.rows[i].cells["actual_total"]) # 2900

\* the rows of the report of date d with the given heading
ReportValues(d, heading) ==
    {xero_out[d][k].Value :
        k \in {k \in 1..Len(xero_out[d]) : xero_out[d][k].Heading = heading}}

\* a report of date d is on disk
Reported(d) == dpc = 8 /\ xero_out[d] # <<>>

\* the last ledger row of date d: the one whose report stays on disk
LastRowOn(d) == book.rows[Max(RowsOn(book, d))]

\* C17: Status is "Matched" exactly for the ledger rows whose actual_total
\* and expected_total are equal to two decimals, "Not Matched" for the
\* others, and the Reconciliation Status row of a date's report shows the
\* Status of every ledger row of that date
C17_StatusAgrees ==
    (book.present /\ "Status" \in book.cols) =>
        /\ \A i \in 1..Len(book.rows) :
               LET cells == book.rows[i].cells
               IN  /\ cells["Status"] \in {<<"M", "a", "t", "c", "h", "e", "d">>, <<"N", "o", "t", " ", "M", "a", "t", "c", "h", "e", "d">>}
                   /\ cells["Status"] = <<"M", "a", "t", "c", "h", "e", "d">>
                          <=> Coerced(cells["actual_total"])
                                  = Coerced(cells["expected_total"])
        /\ \A d \in Dates : Reported(d) =>
               \A i \in RowsOn(book, d) :
                   ReportValues(d, <<"R", "e", "c", "o", "n", "c", "i", "l", "i", "a", "t", "i", "o", "n", " ", "S", "t", "a", "t", "u", "s">>)
                       = {book.rows[i].cells["Status"]}

\* C17 as far as it holds: the report of a date shows the Status of the
\* last ledger row of that date
C17_StatusOfLastRow ==
    (book.present /\ "Status" \in book.cols) =>
        /\ \A i \in 1..Len(book.rows) :
               LET cells == book.rows[i].cells
               IN  /\ cells["Status"] \in {<<"M", "a", "t", "c", "h", "e", "d">>, <<"N", "o", "t", " ", "M", "a", "t", "c", "h", "e", "d">>}
                   /\ cells["Status"] = <<"M", "a", "t", "c", "h", "e", "d">>
                          <=> Coerced(cells["actual_total"])
                                  = Coerced(cells["expected_total"])
        /\ \A d \in Dates : Reported(d) =>
               ReportValues(d, <<"R", "e", "c", "o", "n", "c", "i", "l", "i", "a", "t", "i", "o", "n", " ", "S", "t", "a", "t", "u", "s">>)
                   = {LastRowOn(d).cells["Status"]}

C17_Witness ==
    /\ Reported(1)
    /\ "Status" \in book.cols
    /\ ReportValues(1, <<"R", "e", "c", "o", "n", "c", "i", "l", "i", "a", "t", "i", "o", "n", " ", "S", "t", "a", "t", "u", "s">>) = {<<"N", "o", "t", " ", "M", "a", "t", "c", "h", "e", "d">>}
    /\ Reported(2)
    /\ ReportValues(2, <<"R", "e", "c", "o", "n", "c", "i", "l", "i", "a", "t", "i", "o", "n", " ", "S", "t", "a", "t", "u", "s">>) = {<<"M", "a", "t", "c", "h", "e", "d">>}

\* text t is a number written with exactly two decimals
TwoDecimals(t) ==
    LET body == IF t # <<>> /\ t[1] = "-" THEN Tail(t) ELSE t
        n == Len(body)
    IN  /\ n >= 4
        /\ body[n - 2] = "."
        /\ \A k \in (1..n) \ {n - 2} : body[k] \in DigitSet

\* text t is a whole number written without a point
IntegerText(t) ==
    LET body == IF t # <<>> /\ t[1] = "-" THEN Tail(t) ELSE t
    IN  body # <<>> /\ \A k \in 1..Len(body) : body[k] \in DigitSet

\* the five derived amounts other than evergreen are written with two
\* decimals
FixedColumns ==
    {"xero_booking_fee", "xero_postage", "xero_on_account", "expected_total",
     "actual_total"}
FixedFormat ==
    book.present =>
        \A i \in 1..Len(book.rows) : \A c \in FixedColumns \cap book.cols :
            TwoDecimals(book.rows[i].cells[c])

\* the evergreen amount of row i, in hundredths, over coerced values
EvergreenCents(i) ==
    Coerced(book.rows[i].cells["mddto_evergreen_total"])
        - Coerced(book.rows[i].cells["mddto_evergreen_other"])

\* C18: booking fee, postage, on-account, expected total and actual total
\* are written with exactly two decimals; evergreen is written as an
\* integer when its result is whole and with two decimals when it is not
C18_TwoDecimals ==
    /\ FixedFormat
    /\ (book.present /\ "xero_evergreen" \in book.cols) =>
           \A i \in 1..Len(book.rows) :
               IF EvergreenCents(i) % 100 = 0
               THEN IntegerText(book.rows[i].cells["xero_evergreen"])
               ELSE TwoDecimals(book.rows[i].cells["xero_evergreen"])

C18_Witness ==
    /\ book.present
    /\ "xero_evergreen" \in book.cols
    /\ \E i \in 1..Len(book.rows) :
           /\ EvergreenCents(i) = 250
           /\ book.rows[i].cells["xero_evergreen"] = <<"2", ".", "5">>

\* the headings of the nine core rows and of the rows after the banner
CoreHeadings ==
    <<<<"B", "O", "O", "K", "I", "N", "G", " ", "F", "E", "E">>, <<"P", "O", "S", "T", "A", "G", "E">>, <<"O", "N", " ", "A", "C", "C", "O", "U", "N", "T">>, <<"E", "V", "E", "R", "G", "R", "E", "E", "N">>,
      <<"M", "I", "L", "E", "S", " ", "A", "W", "A", "Y", " ", "T", "R", "A", "V", "E", "L", " ", "C", "L", "U", "B">>, <<"U", "N", "A", "L", "L", "O", "C", "A", "T", "E", "D">>, <<"R", "E", "F", "U", "N", "D">>, <<"G", "I", "F", "T", " ", "C", "A", "R", "D">>,
      <<"V", "O", "U", "C", "H", "E", "R">>>>
BlockHeadings ==
    <<<<"A", "c", "t", "u", "a", "l", " ", "T", "o", "t", "a", "l">>, <<"E", "x", "p", "e", "c", "t", "e", "d", " ", "T", "o", "t", "a", "l">>, <<"D", "i", "f", "f", "e", "r", "e", "n", "c", "e">>,
      <<"R", "e", "c", "o", "n", "c", "i", "l", "i", "a", "t", "i", "o", "n", " ", "S", "t", "a", "t", "u", "s">>, <<"T", "i", "c", "k", "e", "t", " ", "O", "f", "f", "i", "c", "e", " ", "N", "o", "t", "e", "s">>>>

\* a cell without a value
Blank(t) ==
    read_cell(t) = NA \/ Lower(Strip(t)) \in {<<>>, <<"n", "a", "n">>, <<"n", "o", "n", "e">>, <<"n", "u", "l", "l">>}

\* the event lines of a Season/Event CSV that the report shows: a label,
\* other than a total marker, with a value
Shown(csv) ==
    IF ~csv.present \/ ~({"Event", "ccdva_less_charges"} \subseteq csv.cols)
    THEN <<>>
    ELSE SelectSeq(csv.rows,
             LAMBDA r : /\ ~Blank(r.Event)
                        /\ Lower(Strip(r.Event)) \notin _SKIP_EVENTS
                        /\ ~Blank(r.ccdva_less_charges))

\* C19: the report of a date is the nine core rows in their order, the last
\* four with value "0", then the event rows, then the banner, Actual Total,
\* Expected Total, Difference = expected - actual, Reconciliation Status
\* and Ticket Office Notes; the event rows lie between the core rows and
\* the banner
C19_ReportLayout ==
    \A d \in Dates : Reported(d) =>
        LET rows == xero_out[d]
            n == Len(rows)
            events == Shown(event_dir[d])
        IN  /\ n = 9 + Len(events) + 6
            /\ \A k \in 1..9 :
                   /\ rows[k].Heading = CoreHeadings[k]
                   /\ rows[k].Date = _format_date(d)
                   /\ k >= 6 => rows[k].Value = <<"0">>
            /\ \A k \in 1..Len(events) :
                   /\ rows[9 + k].Heading = Strip(events[k].Event)
                   /\ rows[9 + k].Date = _format_date(d)
            /\ rows[n - 5] = ReportRow(Banner, <<>>, <<>>)
            /\ \A k \in 1..5 :
                   /\ rows[n - 5 + k].Heading = BlockHeadings[k]
                   /\ rows[n - 5 + k].Date = <<>>
            /\ CentsOf(rows[n - 2].Value)
                   = CentsOf(rows[n - 3].Value) - CentsOf(rows[n - 4].Value)

C19_Witness ==
    /\ Reported(1)
    /\ Len(xero_out[1]) = 17
    /\ xero_out[1][10].Heading = <<"A", "r", "g", "y", "l", "e", " ", "v", " ", "L", "e", "e", "d", "s">>
    /\ xero_out[1][11].Heading = <<"A", "r", "g", "y", "l", "e", " ", "v", " ", "L", "e", "e", "d", "s">>
    /\ CentsOf(xero_out[1][15].Value) # 0

\* the report columns whose cell is shown as it is, with their headings
ShownColumns ==
    [xero_booking_fee |-> <<"B", "O", "O", "K", "I", "N", "G", " ", "F", "E", "E">>, xero_postage |-> <<"P", "O", "S", "T", "A", "G", "E">>,
     xero_on_account |-> <<"O", "N", " ", "A", "C", "C", "O", "U", "N", "T">>, xero_evergreen |-> <<"E", "V", "E", "R", "G", "R", "E", "E", "N">>,
     mddto_miles_gross |-> <<"M", "I", "L", "E", "S", " ", "A", "W", "A", "Y", " ", "T", "R", "A", "V", "E", "L", " ", "C", "L", "U", "B">>]

\* C20: the report is produced for every ledger date even when a column it
\* uses is missing, it shows "0" for a column that is missing or has no
\* concrete value for the date, and no Value cell holds a placeholder such
\* as "File Unavailable" or "Data Unavailable"
C20_ReportDefaults ==
    (dpc = 8 /\ book.present) =>
        \A d \in DateSet(book) :
            /\ Reported(d)
            /\ \A k \in 1..Len(xero_out[d]) :
                   ~Contains(Lower(xero_out[d][k].Value), <<"u", "n", "a", "v", "a", "i", "l", "a", "b", "l", "e">>)
            /\ \A c \in DOMAIN ShownColumns :
                   (c \notin book.cols \/ IsPlaceholder(LastRowOn(d).cells[c]))
                       => ReportValues(d, ShownColumns[c]) = {<<"0">>}

\* the part of C20 that holds: a blank cell is shown as "0"
BlankIsZero ==
    (dpc = 8 /\ book.present) =>
        \A d \in DateSet(book) : Reported(d) =>
            \A c \in DOMAIN ShownColumns :
                Blank(LastRowOn(d).cells[c])
                    => ReportValues(d, ShownColumns[c]) = {<<"0">>}

C20_Witness ==
    /\ Reported(1)
    /\ LastRowOn(1).cells["mddto_miles_gross"] = <<"D", "a", "t", "a", " ", "U", "n", "a", "v", "a", "i", "l", "a", "b", "l", "e">>
    /\ ReportValues(1, <<"M", "I", "L", "E", "S", " ", "A", "W", "A", "Y", " ", "T", "R", "A", "V", "E", "L", " ", "C", "L", "U", "B">>) = {<<"D", "a", "t", "a", " ", "U", "n", "a", "v", "a", "i", "l", "a", "b", "l", "e">>}

\* a ledger without a column of the report is left without any report
C20_NoReport ==
    /\ dpc = 8
    /\ book.present
    /\ "ticketoffice_notes" \notin book.cols
    /\ \A d \in Dates : xero_out[d] = <<>>

(***************************************************************************)
(* The three coercions of a cell text to a number                          *)
(*                                                                         *)
(* _normalise_value (booking fee, postage), _series_to_number (on-account, *)
(* evergreen, expected total, actual total, status) and the report's       *)
(* _parse_amount, each applied once to the same cell text.                 *)
(***************************************************************************)

\* the cell texts handed to the coercions
CoerceTexts ==
    {<<>>, <<"n", "a", "n">>, <<"n", "u", "l", "l">>, <<"n", "o", "n", "e">>, <<"F", "i", "l", "e", " ", "U", "n", "a", "v", "a", "i", "l", "a", "b", "l", "e">>,
     <<"D", "a", "t", "a", " ", "U", "n", "a", "v", "a", "i", "l", "a", "b", "l", "e">>, <<"N", "o", "t", " ", "A", "v", "a", "i", "l", "a", "b", "l", "e">>, <<"a", "b", "c">>, <<"5", ".", "0", "0">>, <<" ", "5", ".", "0", "0", " ">>,
     <<"-", "5", ".", "0", "0">>, <<"1", "2">>, <<"1", ",", "2", "3", "4", ".", "5", "0">>, <<"(", "1", "2", "3", ".", "4", "5", ")">>, <<"(", "1", ",", "2", "3", "4", ".", "5", "0", ")">>, <<"(", "5">>,
     <<"5", ")">>, <<"(", "(", "5", ")", ")">>, <<"(", "-", "5", ")">>, <<"(", ")">>}

\* the number a call returned
Returned(x) == [run |-> TRUE, c |-> x.c, nz |-> x.nz]

CoerceInit ==
    /\ RunIdle
    /\ SeasonIdle
    /\ cell_text \in CoerceTexts
    /\ by_normalise_value = [run |-> FALSE]
    /\ by_series_to_number = [run |-> FALSE]
    /\ by_parse_amount = [run |-> FALSE]
    /\ norm_hist = <<>>
    /\ charges_df = <<>>
    /\ used_indices = {}
    /\ event_matches = <<>>
    /\ assigned = <<>>
    /\ last = NoCall
    /\ csv_written = FALSE
    /\ provider = "start"
    /\ CascadeIdle
    /\ DeriveIdle

\* the booking-fee or postage pass coerces the cell
NormaliseValue ==
    /\ ~by_normalise_value.run
    /\ by_normalise_value' = Returned(_normalise_value(read_cell(cell_text)))
    /\ UNCHANGED <<cell_text, by_series_to_number, by_parse_amount>>
    /\ UNCHANGED <<mvars, nvars, cvars, dvars, svars, rvars>>

\* a series pass coerces the column that holds the cell
SeriesToNumber ==
    /\ ~by_series_to_number.run
    /\ by_series_to_number'
           = Returned(_series_to_number(<<read_cell(cell_text)>>).v[1])
    /\ UNCHANGED <<cell_text, by_normalise_value, by_parse_amount>>
    /\ UNCHANGED <<mvars, nvars, cvars, dvars, svars, rvars>>

\* the report parses the cell
ParseAmount ==
    /\ ~by_parse_amount.run
    /\ by_parse_amount' = Returned(_parse_amount(read_cell(cell_text)))
    /\ UNCHANGED <<cell_text, by_normalise_value, by_series_to_number>>
    /\ UNCHANGED <<mvars, nvars, cvars, dvars, svars, rvars>>

CoerceNext ==
    \/ NormaliseValue
    \/ SeriesToNumber
    \/ ParseAmount

SpecCoerce == CoerceInit /\ [][CoerceNext]_vars

(***************************************************************************)
(* The Season/Event table of one date, from the export to the ledger       *)
(*                                                                         *)
(* klarna_seasonevent._process_pdf writes the table with the columns Event,*)
(* Total_CCDVA and charges_value; enrich_klarna_tables_with_charges fills  *)
(* charges_value; add_ccdva_less_charges_column adds ccdva_less_charges    *)
(* and the total row; build_xero_ccdva_less_charges_column copies the      *)
(* total into the ledger.  Cells are the texts of the CSV, amounts are in  *)
(* hundredths.                                                             *)
(***************************************************************************)
MaxLines == 2          \* rows of an exported Season/Event table
MaxApplications == 2   \* runs of add_ccdva_less_charges_column

\* str(x) of a float, as to_csv writes it: "25.0", "12.5", "0.25"
FloatText(c) ==
    (IF c < 0 THEN <<"-">> ELSE <<>>)
        \o NatStr(Abs(c) \div 100) \o <<".">>
        \o <<DigitSeq[((Abs(c) % 100) \div 10) + 1]>>
        \o (IF Abs(c) % 10 = 0 THEN <<>> ELSE <<DigitSeq[(Abs(c) % 10) + 1]>>)

\* ccdva_less_charges._to_numeric for one cell:
\* pd.to_numeric(errors="coerce").fillna(0)
_to_numeric(t) == IF ParseFloat(t).ok THEN ParseFloat(t).num.c ELSE 0

\* the rows _process_pdf can write: Total_CCDVA is a sum of floats,
\* charges_value what _ChargesValueMatcher.resolve_value returned, a float
\* or None
ExportedRows ==
    {[Event |-> <<"A", "r", "g", "y", "l", "e", " ", "v", " ", "L", "e", "e", "d", "s">>, Total_CCDVA |-> <<"2", "5", ".", "0">>,
      charges_value |-> <<>>, ccdva_less_charges |-> <<>>],
     [Event |-> <<"A", "r", "g", "y", "l", "e", " ", "v", " ", "L", "e", "e", "d", "s">>, Total_CCDVA |-> <<"2", "5", ".", "0">>,
      charges_value |-> <<"2", "0", ".", "0">>, ccdva_less_charges |-> <<>>],
     [Event |-> <<"A", "r", "g", "y", "l", "e", " ", "v", " ", "S", "t", "o", "k", "e">>, Total_CCDVA |-> <<"1", "2", ".", "5">>,
      charges_value |-> <<>>, ccdva_less_charges |-> <<>>],
     [Event |-> <<"T", "o", "t", "a", "l", " ", "I", "n", "c", "o", "m", "e">>, Total_CCDVA |-> <<"3", "7", ".", "5">>,
      charges_value |-> <<>>, ccdva_less_charges |-> <<>>]}

\* the table of the date after the export: none when _process_pdf failed
ExportedTables ==
    {Absent}
        \cup {[present |-> TRUE,
               cols |-> {"Event", "Total_CCDVA", "charges_value"},
               rows |-> rows] :
                 rows \in SeqsUpTo(ExportedRows, MaxLines) \ {<<>>}}

\* the values a charges workbook holds for an event, as _enrich_csv writes
\* them: 0 for no match
ChargeTexts == {<<"0">>, <<"2", "0", ".", "0">>}

\* to_csv of a column read without dtype: a column of whole numbers is
\* written as it was read, a column with a float or an empty cell is a
\* float column, a column with other text is left as text
WriteColumn(texts) ==
    IF \A i \in 1..Len(texts) : ParseFloat(texts[i]).ok /\ ParseFloat(texts[i]).whole
    THEN texts
    ELSE IF \E i \in 1..Len(texts) :
                read_cell(texts[i]) # NA /\ ~ParseFloat(texts[i]).ok
    THEN [i \in 1..Len(texts) |->
             IF read_cell(texts[i]) = NA THEN <<>> ELSE texts[i]]
    ELSE [i \in 1..Len(texts) |->
             IF read_cell(texts[i]) = NA THEN <<>>
             ELSE FloatText(ParseFloat(texts[i]).num.c)]

\* _enrich_csv lines 338-344: the rows that get no charge
NoChargeRow(r) ==
    read_cell(r.Event) = NA \/ Strip(r.Event) = <<>>
        \/ Lower(Strip(r.Event)) = <<"t", "o", "t", "a", "l", " ", "i", "n", "c", "o", "m", "e">>

\* _enrich_csv: df["charges_value"] = event_matches, then to_csv
_enrich_csv(csv, matches) ==
    LET n == Len(csv.rows)
        total_ccdva == WriteColumn([i \in 1..n |-> csv.rows[i].Total_CCDVA])
    IN  [csv EXCEPT
            !.cols = @ \cup {"charges_value"},
            !.rows = [i \in 1..n |->
                         [csv.rows[i] EXCEPT
                             !.Total_CCDVA = total_ccdva[i],
                             !.charges_value =
                                 IF NoChargeRow(csv.rows[i]) THEN <<>>
                                 ELSE matches[i]]]]

\* the sum of a sequence of amounts
RECURSIVE SumOf(_)
SumOf(s) == IF s = <<>> THEN 0 ELSE Head(s) + SumOf(Tail(s))

\* lines 24-26: Total_CCDVA - charges_value of every row
LessColumn(df) ==
    [i \in 1..Len(df.rows) |->
        _to_numeric(df.rows[i].Total_CCDVA)
            - _to_numeric(df.rows[i].charges_value)]

\* line 28: the rows whose Event is "total income" in any case
TotalMask(df) ==
    [i \in 1..Len(df.rows) |->
        Lower(AsStr(read_cell(df.rows[i].Event))) = <<"t", "o", "t", "a", "l", " ", "i", "n", "c", "o", "m", "e">>]

\* lines 29-38: the total of the other rows is written into the total
\* rows, or into a new row when there is none
WorkingRows(df, less, total_mask, total_value) ==
    LET working == [i \in 1..Len(df.rows) |->
                       [df.rows[i] EXCEPT
                           !.ccdva_less_charges =
                               FloatText(IF total_mask[i] THEN total_value
                                         ELSE less[i])]]
    IN  IF \E i \in 1..Len(df.rows) : total_mask[i] THEN working
        ELSE Append(working,
                    [Event |-> <<"x", "e", "r", "o", "_", "c", "c", "d", "v", "a", "_", "l", "e", "s", "s", "_", "c", "h", "a", "r", "g", "e", "s", "-", "-", ">">>,
                     Total_CCDVA |-> <<>>, charges_value |-> <<>>,
                     ccdva_less_charges |-> FloatText(total_value)])

\* updated_df.to_csv(csv_file, index=False)
WrittenTable(df, all) ==
    CHOOSE out \in
        {[df EXCEPT
             !.cols = @ \cup {"ccdva_less_charges"},
             !.rows = [i \in 1..Len(all) |->
                          [all[i] EXCEPT !.Total_CCDVA = total_ccdva[i],
                                         !.charges_value = charges[i]]]] :
            total_ccdva \in
                {WriteColumn([i \in 1..Len(all) |-> all[i].Total_CCDVA])},
            charges \in
                {WriteColumn([i \in 1..Len(all) |-> all[i].charges_value])}} :
        TRUE

\* ccdva_less_charges._apply_ccdva_less_charges followed by to_csv
_apply_ccdva_less_charges(df) ==
    CHOOSE out \in
        {WrittenTable(df, all) :
            all \in
                {WorkingRows(
                     df, less, total_mask,
                     SumOf([i \in 1..Len(df.rows) |->
                               IF total_mask[i] THEN 0 ELSE less[i]])) :
                    less \in {LessColumn(df)},
                    total_mask \in {TotalMask(df)}}} :
        TRUE

\* add_ccdva_less_charges_column for the table of the date
add_ccdva_less_charges_column(csv) ==
    IF ~csv.present THEN csv
    ELSE IF ~({"Total_CCDVA", "charges_value"} \subseteq csv.cols) THEN csv
    ELSE _apply_ccdva_less_charges(csv)

\* xero_ccdva_less_charges_aggregate._load_totals_by_date and lines
\* 143-149 of build_xero_ccdva_less_charges_column, for the table of the
\* date as read_csv(dtype=str) gives it
LedgerTotal(csv) ==
    LET event_rows ==
            {i \in 1..Len(csv.rows) :
                Lower(Strip(AsStr(read_cell(csv.rows[i].Event))))
                    = <<"x", "e", "r", "o", "_", "c", "c", "d", "v", "a", "_", "l", "e", "s", "s", "_", "c", "h", "a", "r", "g", "e", "s", "-", "-", ">">>}
        value == read_cell(csv.rows[Min(event_rows)].ccdva_less_charges)
    IN  IF ~csv.present THEN <<"F", "i", "l", "e", " ", "U", "n", "a", "v", "a", "i", "l", "a", "b", "l", "e">>
        ELSE IF ~({"Event", "ccdva_less_charges"} \subseteq csv.cols)
        THEN <<"D", "a", "t", "a", " ", "U", "n", "a", "v", "a", "i", "l", "a", "b", "l", "e">>
        ELSE IF event_rows = {} THEN <<"D", "a", "t", "a", " ", "U", "n", "a", "v", "a", "i", "l", "a", "b", "l", "e">>
        ELSE IF value = NA \/ Strip(value) = <<>>
                \/ Lower(Strip(value)) = <<"n", "a", "n">>
        THEN <<"D", "a", "t", "a", " ", "U", "n", "a", "v", "a", "i", "l", "a", "b", "l", "e">>
        ELSE Strip(value)

SeasonInit ==
    /\ RunIdle
    /\ api_key \in BOOLEAN
    /\ se_exported \in ExportedTables
    /\ se_csv = se_exported
    /\ spc = 0
    /\ applied = 0
    /\ provider_calls = 0
    /\ enrich_result = "not called"
    /\ ccdva_cell = <<>>
    /\ norm_hist = <<>>
    /\ charges_df = <<>>
    /\ used_indices = {}
    /\ event_matches = <<>>
    /\ assigned = <<>>
    /\ last = NoCall
    /\ csv_written = FALSE
    /\ provider = "start"
    /\ CascadeIdle
    /\ DeriveIdle
    /\ CoerceIdle

\* enrich_klarna_tables_with_charges lines 398-401: no client, no work
EnrichWithoutKey ==
    /\ spc = 0
    /\ ~api_key
    /\ spc' = 1
    /\ enrich_result' = "True"
    /\ UNCHANGED <<api_key, se_exported, se_csv, applied, provider_calls,
                   ccdva_cell>>
    /\ UNCHANGED <<mvars, nvars, cvars, dvars, kvars, rvars>>

\* lines 406-451 when the date has no charges workbook or no table: the
\* document is skipped
EnrichSkips ==
    /\ spc = 0
    /\ api_key
    /\ spc' = 1
    /\ enrich_result' = "True"
    /\ UNCHANGED <<api_key, se_exported, se_csv, applied, provider_calls,
                   ccdva_cell>>
    /\ UNCHANGED <<mvars, nvars, cvars, dvars, kvars, rvars>>

\* lines 434-455: the pool is embedded and _enrich_csv writes the charges
Enrich(matches, calls) ==
    /\ spc = 0
    /\ api_key
    /\ se_csv.present
    /\ spc' = 1
    /\ se_csv' = _enrich_csv(se_csv, matches)
    /\ provider_calls' = 1 + calls
    /\ enrich_result' = "True"
    /\ UNCHANGED <<api_key, se_exported, applied, ccdva_cell>>
    /\ UNCHANGED <<mvars, nvars, cvars, dvars, kvars, rvars>>

\* add_ccdva_less_charges_column runs, for the first time or once more
AddCcdva ==
    /\ spc = 1
    /\ applied < MaxApplications
    /\ applied' = applied + 1
    /\ se_csv' = add_ccdva_less_charges_column(se_csv)
    /\ UNCHANGED <<api_key, se_exported, spc, provider_calls, enrich_result,
                   ccdva_cell>>
    /\ UNCHANGED <<mvars, nvars, cvars, dvars, kvars, rvars>>

\* build_xero_ccdva_less_charges_column fills the ledger cell of the date
BuildXeroCcdva ==
    /\ spc = 1
    /\ spc' = 2
    /\ ccdva_cell' = LedgerTotal(se_csv)
    /\ UNCHANGED <<api_key, se_exported, se_csv, applied, provider_calls,
                   enrich_result>>
    /\ UNCHANGED <<mvars, nvars, cvars, dvars, kvars, rvars>>

SeasonNext ==
    \/ EnrichWithoutKey
    \/ EnrichSkips
    \/ \E matches \in [1..Len(se_csv.rows) -> ChargeTexts] :
           \E calls \in 0..Len(se_csv.rows) : Enrich(matches, calls)
    \/ AddCcdva
    \/ BuildXeroCcdva

SpecSeason == SeasonInit /\ [][SeasonNext]_vars


(***************************************************************************)
(* The entrypoint: pafc_db_tkts_pipeline_orchestrator.main and the six     *)
(* mini-pipelines of fixed_line_items                                      *)
(***************************************************************************)

MaxDocs == 2    \* input documents of one mini-pipeline

\* main lines 68-86: the stage runners in the order of the list
StageRunners ==
    <<"TicketOffice", "saleitemsmop", "Charges",
      "Membership Daily Detailed Totals", "Klarna DailyTakings",
      "Klarna SeasonEvent MoP">>

\* what the processing of one document does: in every mini-pipeline the
\* date or file-name check of stage 2 may raise; a Charges workbook may also
\* fail when its postal detail is written or when its totals are extracted,
\* and a Season/Event document when its table is exported
SimpleOutcomes == {"ok", "raises"}
ChargesOutcomes ==
    {"ok", "raises", "postal fails", "totals raise", "no totals"}
SeasonOutcomes == {"ok", "raises", "export fails"}

\* an output file: the mini-pipeline that wrote it, what it is, and the
\* document it belongs to (0 for a file of the whole stage)
File(stage, kind, doc) == [stage |-> stage, kind |-> kind, doc |-> doc]

\* what a mini-pipeline hands back to main: its count, or an exception
Returned_(count, outcomes, written) ==
    [count |-> count, raised |-> FALSE, outcomes |-> outcomes,
     written |-> written]
Raised_(outcomes, written) ==
    [count |-> 0, raised |-> TRUE, outcomes |-> outcomes,
     written |-> written]

\* "if errors or not rows" of every _stage2_build_*_rows caller
Stage2Failed(outcomes) ==
    outcomes = <<>> \/ \E i \in 1..Len(outcomes) : outcomes[i] = "raises"

\* run_ticketoffice_pipeline, run_saleitemsmop_pipeline,
\* run_membership_pipeline and run_klarna_pipeline: the summary file is
\* written after every document gave a row
run_simple_pipeline(name, outcomes) ==
    IF Stage2Failed(outcomes) THEN Returned_(-1, outcomes, {})
    ELSE Returned_(Len(outcomes), outcomes, {File(name, "summary", 0)})

\* write_charges_postal_detail_excels: one workbook per document, the
\* documents whose workbook could not be written are the errors
PostalWritten(outcomes) ==
    {File("Charges", "postal detail", i) :
        i \in {j \in 1..Len(outcomes) : outcomes[j] # "postal fails"}}

\* write_charges_totals_excels: a summary per document that has totals and
\* the combined workbook when any document has
TotalsWritten(outcomes) ==
    LET good == {j \in 1..Len(outcomes) : outcomes[j] = "ok"}
    IN  {File("Charges", "totals", i) : i \in good}
            \cup (IF good = {} THEN {}
                  ELSE {File("Charges", "combined totals", 0)})

\* run_charges_pipeline lines 206-240
run_charges_pipeline(outcomes) ==
    IF Stage2Failed(outcomes) THEN Returned_(-1, outcomes, {})
    ELSE IF \E i \in 1..Len(outcomes) : outcomes[i] = "postal fails"
    THEN Returned_(-1, outcomes, PostalWritten(outcomes))
    ELSE IF \E i \in 1..Len(outcomes) : outcomes[i] # "ok"
    THEN Returned_(-1, outcomes,
                   PostalWritten(outcomes) \cup TotalsWritten(outcomes))
    ELSE Returned_(Len(outcomes), outcomes,
                   PostalWritten(outcomes) \cup TotalsWritten(outcomes)
                       \cup {File("Charges", "summary", 0)})

\* export_klarna_seasonevent_tables and build_monthly_unique_events_list:
\* a table per document that _process_pdf could export, and the monthly
\* list when the folder holds a table, of this run or of an earlier one
SeasonWritten(outcomes, older) ==
    LET saved == {j \in 1..Len(outcomes) : outcomes[j] = "ok"}
    IN  {File("Klarna SeasonEvent MoP", "table", i) : i \in saved}
            \cup (IF saved = {} /\ ~older THEN {}
                  ELSE {File("Klarna SeasonEvent MoP", "monthly list", 0)})

\* run_klarna_seasoneventmop_pipeline lines 367-397: the name called at
\* line 387 is not bound in fixed_line_items (its import at line 53 is a
\* comment), so the call raises NameError and lines 388-397 never run
run_klarna_seasoneventmop_pipeline(outcomes, older) ==
    IF Stage2Failed(outcomes) THEN Returned_(-1, outcomes, {})
    ELSE Raised_(outcomes, SeasonWritten(outcomes, older))

\* the mutation of Fatal that lets a failed stage pass
Fatal_Never(count) == FALSE

\* _run_stage line 119: "if count < 0"
Fatal(count) == count < 0

RunInit ==
    /\ rpc = "start"
    /\ ran = <<>>
    /\ exit_status = -1
    /\ disk = {}
    /\ norm_hist = <<>>
    /\ charges_df = <<>>
    /\ used_indices = {}
    /\ event_matches = <<>>
    /\ assigned = <<>>
    /\ last = NoCall
    /\ csv_written = FALSE
    /\ provider = "start"
    /\ CascadeIdle
    /\ DeriveIdle
    /\ CoerceIdle
    /\ SeasonIdle

\* main lines 62-65: run_all_stage1_checksums raises and main exits with 1
Stage1ChecksRaise ==
    /\ rpc = "start"
    /\ rpc' = "exited"
    /\ exit_status' = 1
    /\ UNCHANGED <<ran, disk>>
    /\ UNCHANGED <<mvars, nvars, cvars, dvars, kvars, svars>>

\* main lines 62-66: the checks pass and hand over the documents
Stage1ChecksPass ==
    /\ rpc = "start"
    /\ rpc' = "stages"
    /\ UNCHANGED <<ran, exit_status, disk>>
    /\ UNCHANGED <<mvars, nvars, cvars, dvars, kvars, svars>>

\* _run_stage lines 113-128 for the runner at position step of the list:
\* a negative count ends the process with sys.exit(1), and so does the
\* exception no caller catches
_run_stage(step, result) ==
    /\ ran' = Append(ran, [name |-> StageRunners[step],
                           count |-> result.count,
                           raised |-> result.raised,
                           outcomes |-> result.outcomes])
    /\ disk' = disk \cup result.written
    /\ IF result.raised \/ Fatal(result.count)
       THEN rpc' = "exited" /\ exit_status' = 1
       ELSE UNCHANGED <<rpc, exit_status>>
    /\ UNCHANGED <<mvars, nvars, cvars, dvars, kvars, svars>>

\* main lines 88-90: the loop calls the runners one after the other
StepTicketOffice(outcomes) ==
    /\ rpc = "stages" /\ Len(ran) = 0
    /\ _run_stage(1, run_simple_pipeline("TicketOffice", outcomes))

StepSaleItemsMop(outcomes) ==
    /\ rpc = "stages" /\ Len(ran) = 1
    /\ _run_stage(2, run_simple_pipeline("saleitemsmop", outcomes))

StepCharges(outcomes) ==
    /\ rpc = "stages" /\ Len(ran) = 2
    /\ _run_stage(3, run_charges_pipeline(outcomes))

StepMembership(outcomes) ==
    /\ rpc = "stages" /\ Len(ran) = 3
    /\ _run_stage(4, run_simple_pipeline("Membership Daily Detailed Totals",
                                         outcomes))

StepKlarnaDailyTakings(outcomes) ==
    /\ rpc = "stages" /\ Len(ran) = 4
    /\ _run_stage(5, run_simple_pipeline("Klarna DailyTakings", outcomes))

StepKlarnaSeasonEvent(outcomes, older) ==
    /\ rpc = "stages" /\ Len(ran) = 5
    /\ _run_stage(6, run_klarna_seasoneventmop_pipeline(outcomes, older))

RunNext ==
    \/ Stage1ChecksRaise
    \/ Stage1ChecksPass
    \/ \E outcomes \in SeqsUpTo(SimpleOutcomes, MaxDocs) :
           StepTicketOffice(outcomes)
    \/ \E outcomes \in SeqsUpTo(SimpleOutcomes, MaxDocs) :
           StepSaleItemsMop(outcomes)
    \/ \E outcomes \in SeqsUpTo(ChargesOutcomes, MaxDocs) :
           StepCharges(outcomes)
    \/ \E outcomes \in SeqsUpTo(SimpleOutcomes, MaxDocs) :
           StepMembership(outcomes)
    \/ \E outcomes \in SeqsUpTo(SimpleOutcomes, MaxDocs) :
           StepKlarnaDailyTakings(outcomes)
    \/ \E outcomes \in SeqsUpTo(SeasonOutcomes, MaxDocs) :
           \E older \in BOOLEAN : StepKlarnaSeasonEvent(outcomes, older)

SpecRun == RunInit /\ [][RunNext]_vars


(***************************************************************************)
(* Claims C21..C30                                                         *)
(***************************************************************************)

\* the labels of the total rows of a Season/Event table, in lower case
TotalMarkers == {<<"t", "o", "t", "a", "l", " ", "i", "n", "c", "o", "m", "e">>, <<"x", "e", "r", "o", "_", "c", "c", "d", "v", "a", "_", "l", "e", "s", "s", "_", "c", "h", "a", "r", "g", "e", "s", "-", "-", ">">>}

\* the event lines of a Season/Event table: a label that is not a total
\* marker
EventLines(csv) ==
    IF ~csv.present \/ ~({"Event", "ccdva_less_charges"} \subseteq csv.cols)
    THEN <<>>
    ELSE SelectSeq(csv.rows,
             LAMBDA r : ~Blank(r.Event)
                        /\ Lower(Strip(r.Event)) \notin TotalMarkers)

\* an event line the enricher matched: its charges_value is an amount
\* other than the 0 of "no match"
Matched(r) == ~Blank(r.charges_value) /\ Coerced(r.charges_value) # 0

\* the rows of a report between the nine core rows and the banner
EventSection(d) == SubSeq(xero_out[d], 10, Len(xero_out[d]) - 6)

\* C21 as stated: the report has exactly one row per matched event line,
\* with heading = the event label and value = the line's charges_value
C21_MatchedChargeRows ==
    \A d \in Dates : Reported(d) =>
        LET lines == SelectSeq(EventLines(event_dir[d]), Matched)
        IN  /\ Len(EventSection(d)) = Len(lines)
            /\ \A k \in 1..Len(lines) :
                   /\ EventSection(d)[k].Heading = Strip(lines[k].Event)
                   /\ EventSection(d)[k].Value = Strip(lines[k].charges_value)

\* C21: the report has exactly one row per event line that has a
\* ccdva_less_charges value, matched or not, in the table's order, with
\* heading = the event label and value = the line's ccdva_less_charges, and
\* no row whose label is a total marker
C21_EventRows ==
    \A d \in Dates : Reported(d) =>
        LET lines == SelectSeq(EventLines(event_dir[d]),
                               LAMBDA r : ~Blank(r.ccdva_less_charges))
        IN  /\ Len(EventSection(d)) = Len(lines)
            /\ \A k \in 1..Len(lines) :
                   /\ EventSection(d)[k].Heading = Strip(lines[k].Event)
                   /\ EventSection(d)[k].Value
                          = Strip(lines[k].ccdva_less_charges)
                   /\ Lower(EventSection(d)[k].Heading) \notin TotalMarkers

C21_Witness ==
    /\ Reported(1)
    /\ event_dir[1].present
    /\ Len(event_dir[1].rows) = 2
    /\ ~Matched(event_dir[1].rows[1])
    /\ Lower(event_dir[1].rows[2].Event) \in TotalMarkers
    /\ ~Blank(event_dir[1].rows[2].ccdva_less_charges)
    /\ Len(EventSection(1)) = 1
    /\ EventSection(1)[1].Value = <<"2", "5", ".", "0", "0">>


\* a ledger row none of whose total inputs holds a figure
AbsentDay(row) ==
    /\ DOMAIN SourceOf \subseteq DOMAIN row.cells
    /\ \A c \in DOMAIN SourceOf : row.cells[c] \in Placeholders

\* a ledger row whose totals are equal figures other than zero
Reconciled(row) ==
    /\ ~AbsentDay(row)
    /\ {"actual_total", "expected_total", "Status"} \subseteq DOMAIN row.cells
    /\ CentsOf(row.cells["actual_total"]) # 0
    /\ row.cells["actual_total"] = row.cells["expected_total"]

\* C29: once the derived passes have run, a ledger row whose every total
\* input is "File Unavailable" or "Data Unavailable" has expected_total
\* 0.00, actual_total 0.00 and Status "Matched", the very Status of a row
\* whose totals are equal figures
C29_AbsentIsMatched ==
    (book.present /\ dpc >= 7) =>
        \A i \in 1..Len(book.rows) :
            LET row == book.rows[i]
            IN  /\ AbsentDay(row) =>
                       /\ row.cells["expected_total"] = <<"0", ".", "0", "0">>
                       /\ row.cells["actual_total"] = <<"0", ".", "0", "0">>
                       /\ row.cells["Status"] = <<"M", "a", "t", "c", "h", "e", "d">>
                /\ Reconciled(row) => row.cells["Status"] = <<"M", "a", "t", "c", "h", "e", "d">>

C29_Witness ==
    /\ book.present
    /\ dpc >= 7
    /\ Len(book.rows) = 2
    /\ AbsentDay(book.rows[1])
    /\ \E c \in DOMAIN SourceOf : book.rows[1].cells[c] = <<"F", "i", "l", "e", " ", "U", "n", "a", "v", "a", "i", "l", "a", "b", "l", "e">>
    /\ \E c \in DOMAIN SourceOf : book.rows[1].cells[c] = <<"D", "a", "t", "a", " ", "U", "n", "a", "v", "a", "i", "l", "a", "b", "l", "e">>
    /\ Reconciled(book.rows[2])
    /\ book.rows[1].cells["Status"] = book.rows[2].cells["Status"]


\* the three coercions have been applied to the cell_text
AllCoerced ==
    by_normalise_value.run /\ by_series_to_number.run /\ by_parse_amount.run

\* a text whose brackets, if it has any, are one pair around digits
WellBracketed(t) ==
    LET s == Strip(t)
        inner == SubSeq(s, 2, Len(s) - 1)
    IN  \/ \A i \in 1..Len(s) : s[i] \notin {"(", ")"}
        \/ /\ Len(s) >= 3
           /\ s[1] = "(" /\ s[Len(s)] = ")"
           /\ inner[1] \in DigitSet
           /\ \A i \in 1..Len(inner) : inner[i] \notin {"(", ")"}

\* C25: _normalise_value, _series_to_number and _parse_amount return the
\* same number for every cell text, malformed bracket forms included
C25_OneCoercion ==
    AllCoerced =>
        /\ by_normalise_value.c = by_series_to_number.c
        /\ by_series_to_number.c = by_parse_amount.c

\* the three coercions agree on every text that is not a malformed bracket
\* form, and the series coercion agrees with the report's on every text
AgreeOnWellBracketed ==
    AllCoerced =>
        /\ by_series_to_number.c = by_parse_amount.c
        /\ WellBracketed(cell_text) =>
               by_normalise_value.c = by_series_to_number.c

C25_Witness ==
    /\ AllCoerced
    /\ cell_text = <<"(", "5">>
    /\ by_normalise_value.c = 500
    /\ by_series_to_number.c = 0
    /\ by_parse_amount.c = 0


\* a call of the similarity provider failed
ProviderFailed == provider \in {"pool raised", "label raised"}

\* C24: when a provider call fails, while embedding the pool or one label,
\* the run goes on: no exception leaves enrich_klarna_tables_with_charges,
\* the label gets the no-match value, used_indices keeps its value and the
\* remaining Event rows can still be processed and written
C24_FailureIsNoMatch ==
    /\ provider = "label raised" =>
           /\ event_matches # <<>>
           /\ event_matches[Len(event_matches)] = "0"
           /\ used_indices = last.used_before
    /\ ProviderFailed => csv_written \/ ENABLED MatchNext

\* a failed provider call ends the enrichment where it stands: nothing is
\* written back, and the Event row whose call failed gets no value
AbortedEnrichmentWritesNothing ==
    ProviderFailed => ~csv_written /\ Len(event_matches) = Len(assigned)

C24_Witness ==
    /\ provider = "label raised"
    /\ Len(event_matches) = 1
    /\ Len(event_matches) < MaxEvents
    /\ ~csv_written
    /\ ~ENABLED MatchNext


\* the pass that ran last runs a second time on the sources it found the
\* first time
SecondRun == pc >= 1 /\ pc' = pc /\ again' /\ ~again /\ files = seen

\* C26: a cascade pass that is run a second time, right after its first
\* run and on unchanged source tables, ends without error and leaves the
\* ledger as the first run left it: the same columns, rows and cells
C26_Idempotent ==
    [][SecondRun => (~crashed' /\ ledger' = ledger)]_vars

\* the passes other than the two that merge the source into the ledger are
\* idempotent
IdempotentButMerges ==
    [][(SecondRun /\ pc \notin {6, 7}) => (~crashed' /\ ledger' = ledger)]_vars

\* the Klarna pass has run twice on the default sources: its second run
\* left a ledger with other columns than its first
C26_Witness ==
    /\ pc = 7
    /\ again
    /\ ~crashed
    /\ files = DefaultFiles
    /\ seen = files
    /\ SuffixX("k_dailytakings_cash") \in ledger.cols
    /\ SuffixY("k_dailytakings_cash") \in ledger.cols
    /\ \A i \in 1..Len(ledger.rows) :
           ledger.rows[i].cells["k_dailytakings_cash"] = DataUnavailable


\* the columns each source pass writes; the two merging passes also write
\* the renamed copies of their columns
TargetColumns ==
    [k \in 1..NumPasses |->
        CASE k = 1 -> {"ticketoffice_notes", "saleitemsmop_total"}
          [] k = 2 -> {"mddto_evergreen_other", "mddto_evergreen_total"}
          [] k = 3 -> {"mddto_miles_gross"}
          [] k = 4 -> {"mddto_misc_group_gross"}
          [] k = 5 -> {"mddto_waiting_list"}
          [] k = 6 -> {"mddto_total_all_sales"}
          [] k = 7 -> {"k_dailytakings_cash", "k_dailytakings_credit",
                       "k_dailytakings_debit", "k_dailytakings_voucher",
                       "k_dailytakings_account"}
          [] k = 8 -> {"charges_total"}
          [] k = 9 -> {"charges_postal"}
          [] OTHER -> {"xero_ccdva_less_charges"}]

\* the column each derived pass writes and the columns it reads
DerivedTarget ==
    <<"xero_booking_fee", "xero_postage", "xero_on_account", "xero_evergreen",
      "expected_total", "actual_total", "Status">>
DerivedInputs ==
    <<{"charges_total", "charges_postal"},
      {"charges_postal", "saleitemsmop_total"},
      {"k_dailytakings_voucher", "k_dailytakings_account"},
      {"mddto_evergreen_total", "mddto_evergreen_other"},
      {"k_dailytakings_cash", "k_dailytakings_credit", "k_dailytakings_debit"},
      {"xero_booking_fee", "xero_postage", "xero_evergreen",
       "xero_on_account", "xero_ccdva_less_charges"},
      {"actual_total", "expected_total"}>>

\* the values column c holds on date d
ValuesOn(t, d, c) == {t.rows[i].cells[c] : i \in RowsOn(t, d)}

\* written holds every column of old outside the targets, with the values
\* old has on every date, and no fewer rows
Framed(old, written, targets) ==
    /\ written.present
    /\ Len(written.rows) >= Len(old.rows)
    /\ DateSet(written) = DateSet(old)
    /\ \A c \in old.cols \ targets :
           /\ c \in written.cols
           /\ \A d \in DateSet(old) :
                  ValuesOn(written, d, c) = ValuesOn(old, d, c)

\* a source pass runs on a ledger that exists
SourcePassRuns == (pc' # pc \/ again' # again) /\ ledger.present

\* a derived pass runs on a ledger that exists
DerivedPassRuns == dpc' # dpc /\ dpc' <= 7 /\ book.present

DerivedPassSkipped ==
    /\ book.present
    /\ dpc = 1
    /\ "charges_postal" \notin book.cols
    /\ "xero_booking_fee" \notin book.cols


\* the run had no OPENAI_API_KEY and the enrichment has returned
NoKeyRun == ~api_key /\ spc >= 1

\* without the credential the enrichment calls no provider, returns True
\* and leaves the table of the date as the export wrote it
EnrichmentIsNoOp ==
    NoKeyRun =>
        /\ enrich_result = "True"
        /\ provider_calls = 0
        /\ (applied = 0 => se_csv = se_exported)

DetailSum(csv) ==
    SumOf([i \in 1..Len(csv.rows) |->
              IF Lower(Strip(AsStr(read_cell(csv.rows[i].Event))))
                     \in TotalMarkers
              THEN 0
              ELSE _to_numeric(csv.rows[i].Total_CCDVA)
                       - _to_numeric(csv.rows[i].charges_value)])

\* the ledger cell of the date is filled from a table on which
\* add_ccdva_less_charges_column has run
LedgerFilled == spc = 2 /\ applied >= 1 /\ se_csv.present

\* the exported table has a "Total Income" row
HasTotalIncome ==
    \E i \in 1..Len(se_exported.rows) :
        Lower(Strip(se_exported.rows[i].Event)) = <<"t", "o", "t", "a", "l", " ", "i", "n", "c", "o", "m", "e">>

\* C28 as stated: after add_ccdva_less_charges_column and
\* build_xero_ccdva_less_charges_column the ledger's xero_ccdva_less_charges
\* is the sum over the detail rows of Total_CCDVA - charges_value, with or
\* without a "Total Income" row and after more than one application
C28_LedgerIsDetailSum ==
    LedgerFilled =>
        /\ ParseFloat(ccdva_cell).ok
        /\ ParseFloat(ccdva_cell).num.c = DetailSum(se_csv)

\* the equality holds for one application to a table that has no
\* "Total Income" row
SingleApplicationSum ==
    (LedgerFilled /\ applied = 1 /\ ~HasTotalIncome) =>
        /\ ParseFloat(ccdva_cell).ok
        /\ ParseFloat(ccdva_cell).num.c = DetailSum(se_csv)

\* with a "Total Income" row no "xero_ccdva_less_charges-->" row is
\* written, and the ledger cell is "Data Unavailable"
TotalIncomeHidesTotal ==
    (LedgerFilled /\ HasTotalIncome) => ccdva_cell = <<"D", "a", "t", "a", " ", "U", "n", "a", "v", "a", "i", "l", "a", "b", "l", "e">>

\* a table without a "Total Income" row on which the column was added
\* twice: the detail rows sum to 25.0 and the ledger cell is 0.0
C28_Witness ==
    /\ LedgerFilled
    /\ applied = 2
    /\ ~HasTotalIncome
    /\ DetailSum(se_csv) = 2500
    /\ ccdva_cell = <<"0", ".", "0">>


\* a mini-pipeline that reported a negative count, or raised
Failed(r) == r.raised \/ r.count < 0

\* main has left the loop over the stage runners and stands before the
\* aggregate passes of lines 93-102
AtAggregate == rpc = "stages" /\ Len(ran) = Len(StageRunners)

\* C22: the stages run in the order of the list; a stage that fails is the
\* last one that runs and the process exits with status 1, as it does when
\* the stage-1 check raises; the aggregate passes are reached only when no
\* stage failed
C22_FailFast ==
    /\ Len(ran) <= Len(StageRunners)
    /\ \A k \in 1..Len(ran) : ran[k].name = StageRunners[k]
    /\ \A k \in 1..Len(ran) :
           Failed(ran[k]) =>
               /\ k = Len(ran)
               /\ rpc = "exited"
               /\ exit_status = 1
    /\ (rpc = "exited") = (exit_status = 1)
    /\ (rpc # "exited") => exit_status = -1
    /\ AtAggregate => \A k \in 1..Len(ran) : ~Failed(ran[k])

\* two stages gave their counts, the Charges stage returned -1 and the
\* process has exited with status 1
C22_Witness ==
    /\ Len(ran) = 3
    /\ ran[1].count > 0 /\ ran[2].count > 0
    /\ ran[3].name = "Charges" /\ ran[3].count < 0
    /\ rpc = "exited"
    /\ exit_status = 1

\* every run ends in the stage loop: the Klarna SeasonEvent MoP stage
\* returns -1 or raises, so main never reaches the aggregate passes
NoRunReachesAggregate == ~AtAggregate


\* the processing of a document of the stage raised an error
DocRaised(outcomes) ==
    \E i \in 1..Len(outcomes) :
        outcomes[i] \in {"raises", "postal fails", "totals raise",
                         "export fails"}

\* the output files a stage of this run left on disk
FilesOf(name) == {f \in disk : f.stage = name}

\* C30 as stated: a mini-pipeline one of whose documents raised, or that
\* built no rows, returns a negative count and leaves none of its output
\* files on disk
C30_AllOrNothing ==
    \A k \in 1..Len(ran) :
        (DocRaised(ran[k].outcomes) \/ ran[k].outcomes = <<>>) =>
            /\ ~ran[k].raised
            /\ ran[k].count < 0
            /\ FilesOf(ran[k].name) = {}

\* a stage whose stage 2 failed, on a document's date or file name or for
\* want of rows, returns -1 and has written nothing; the four stages
\* without detail files write nothing whenever they fail
Stage2AllOrNothing ==
    \A k \in 1..Len(ran) :
        /\ Stage2Failed(ran[k].outcomes) =>
               ran[k].count = -1 /\ FilesOf(ran[k].name) = {}
        /\ (k \in {1, 2, 4, 5} /\ Failed(ran[k])) =>
               FilesOf(ran[k].name) = {}

\* the Charges stage returned -1 because the totals of its second workbook
\* could not be extracted, and both postal detail workbooks, the totals of
\* the first workbook and the combined totals workbook are on disk
C30_Witness ==
    /\ Len(ran) = 3
    /\ ran[3].outcomes = <<"ok", "totals raise">>
    /\ ran[3].count = -1
    /\ rpc = "exited"
    /\ FilesOf("Charges") =
           {File("Charges", "postal detail", 1),
            File("Charges", "postal detail", 2),
            File("Charges", "totals", 1),
            File("Charges", "combined totals", 0)}

====
